---------------------------- MODULE Spec2Model ----------------------------
(***************************************************************************)
(* A model of rustydb: the Gorilla bit stream and block codec              *)
(* (src/src/gorilla) and the LSM storage engine (src/src/storage).         *)
(*                                                                         *)
(* A u64 is a sequence of 64 bits, index 1 holding bit 0 (the least        *)
(* significant bit).  Byte strings and files are run-length encoded byte   *)
(* sequences (see the storage part).                                       *)
(***************************************************************************)
EXTENDS Integers, Sequences, FiniteSets, TLC

VARIABLES
    overflow_checks,  \* build profile: TRUE = debug (arithmetic overflow panics)
    \* ---- bit stream (gorilla/bitstream.rs)
    io_pc,            \* "write" | "read"
    bw,               \* BitWriter {n, bitstream}
    bs,               \* BitStream {n, bitstream} returned by close()
    br,               \* BitReader {n, c, bitstream, pos}
    io_log,           \* the write / write_bit calls made so far
    io_idx,           \* number of logged fields read back in order; -1 when off script
    io_last,          \* the last reader call and its result
    \* ---- scalar block codec (gorilla/writer.rs, gorilla/reader.rs)
    g_pc,             \* "new" | "append" | "reader" | "read" | "panic"
    gw,               \* GorillaWriter
    gr,               \* GorillaReader
    g_log,            \* the successful append calls after append_first
    g_out,            \* what the reader returned, one item per call
    g_last,           \* the last call and its result
    \* ---- vector writer (gorilla/writer_mv.rs)
    mv_w,             \* GorillaWriterMV
    mv_calls,         \* number of append_entry calls made
    mv_last,          \* the last call and its result
    \* ---- gorilla/api.rs
    api_pc,           \* "start" | "compressed" | "retrieved" | "compress_panic" | "retrieve_panic"
    api_dim,          \* the dimension D
    api_entries,      \* the entries given to compress_values
    api_block,        \* the block compress_values returned
    api_result,       \* the entries retrieve_values returned
    \* ---- SSTable files (storage/sstable.rs)
    sst_pc,           \* "build" | "read"
    sst_files,        \* the file system: path -> contents
    sst_b,            \* the SSTableFileBuilder in use, if any
    sst_log,          \* path -> the successful add / merge_file calls of its builder
    sst_done,         \* the paths committed
    sst_ops,          \* number of add / merge_file calls made
    sst_r,            \* the SSTableFileReader, if any
    sst_it,           \* its SSTableFileIter, if any
    sst_out,          \* the items the iterator returned
    sst_last,         \* the last call and its result
    \* ---- LSM tree (storage/lsmtree.rs)
    lsm_pc,           \* "run" | "read" | "panic" | "faulted" | "cut" | "reopened" | "failed"
    lsm_tree,         \* LSMTree {memtable, sstables, total_flushed_size}
    lsm_files,        \* the files of the tree's directory: name -> contents
    lsm_uuids,        \* number of SSTable file names generated
    lsm_log,          \* the pairs of the set calls that returned Ok
    lsm_last,         \* the last call and its result
    \* ---- write-ahead log (storage/wal.rs)
    wal_pc,           \* "write" | "crashed" | "panic"
    wal_files,        \* the files of the directory: name -> contents
    wal_w,            \* the BufWriter of the WALWriter: [path, buf]
    wal_log,          \* the records of the add calls that returned
    wal_r,            \* the WALReader, if any: its position in the file
    wal_out,          \* the records the reader returned
    wal_last,         \* the last call and its result
    \* ---- the store (storage/store.rs)
    st_pc,            \* "closed" | "open"
    st_files,         \* the files of the directory: name -> contents
    st_store,         \* the RustyStore, if any: [tree, wal]
    st_uuids,         \* number of SSTable file names generated
    st_log,           \* the pairs of the set calls that returned Ok
    st_opens,         \* number of RustyStore::new calls made
    st_last,          \* the last call and its result
    \* ---- the steps of RustyStore::set beside the compaction thread
    sp_pc,            \* "idle" | "check" | "wal" | "tree" | "get" | "panic"
    sp_kv,            \* the pair of the set call in progress
    sp_observed,      \* whether this call has read compact_finished as true
    sp_cond,          \* the flags: [need_compact, compact_finish]
    sp_locks,         \* the holders of the mutexes: [finish, tree]
    sp_ct,            \* the compaction thread: "start" | "wait" | "compact" | "finish" | "exit"
    sp_store,         \* the RustyStore: [tree, wal]
    sp_files,         \* the files of the directory
    sp_uuids,         \* number of SSTable file names generated
    sp_calls,         \* the pairs of the set calls made, in call order
    sp_got            \* the last get call: [key, res]

bitVars == <<io_pc, bw, bs, br, io_log, io_idx, io_last>>

scalarVars == <<g_pc, gw, gr, g_log, g_out, g_last>>

mvVars == <<mv_w, mv_calls, mv_last>>

apiVars == <<api_pc, api_dim, api_entries, api_block, api_result>>

sstVars == <<sst_pc, sst_files, sst_b, sst_log, sst_done, sst_ops, sst_r, sst_it, sst_out,
             sst_last>>

lsmVars == <<lsm_pc, lsm_tree, lsm_files, lsm_uuids, lsm_log, lsm_last>>

walVars == <<wal_pc, wal_files, wal_w, wal_log, wal_r, wal_out, wal_last>>

storeVars == <<st_pc, st_files, st_store, st_uuids, st_log, st_opens, st_last>>

stepVars == <<sp_pc, sp_kv, sp_observed, sp_cond, sp_locks, sp_ct, sp_store, sp_files,
              sp_uuids, sp_calls, sp_got>>

vars == <<overflow_checks, bitVars, scalarVars, mvVars, apiVars, sstVars, lsmVars, walVars,
          storeVars, stepVars>>

-----------------------------------------------------------------------------
(* 64-bit words *)

W == 64

Pow2(k) == 2^k

\* a function on 1..n as an explicit tuple
Tuple(f) == SubSeq(f, 1, Cardinality(DOMAIN f))

Word(f) == SubSeq(f, 1, W)

\* bit i (0-based) of the two's complement representation of the integer x,
\* for x in the 32-bit range: the cast `x as u64` of an i32 / i64 / u32.
IntBit(x, i) ==
    IF x >= 0
    THEN IF i >= 31 THEN 0 ELSE (x \div Pow2(i)) % 2
    ELSE IF i >= 31 THEN 1 ELSE 1 - ((((-x) - 1) \div Pow2(i)) % 2)

ToU64(x) == Word([i \in 1..W |-> IntBit(x, i - 1)])

\* a u64 from four 16-bit limbs, most significant first
U64Limbs(a3, a2, a1, a0) ==
    Word([i \in 1..W |->
        LET k == i - 1
            limb == IF k < 16 THEN a0 ELSE IF k < 32 THEN a1 ELSE IF k < 48 THEN a2 ELSE a3
        IN (limb \div Pow2(k % 16)) % 2])

ZeroU64 == Word([i \in 1..W |-> 0])

MaxU64 == Word([i \in 1..W |-> 1])

\* the number held by a short bit sequence (fewer than 31 bits set)
RECURSIVE BitsToNat(_)
BitsToNat(b) ==
    IF b = <<>> THEN 0 ELSE b[1] + 2 * BitsToNat(Tail(b))

\* low 31 bits of a word as a number
Low31(v) == BitsToNat(SubSeq(v, 1, 31))

IsSmall(v) == \A i \in 32..W : v[i] = 0

BitAnd(a, b) == Word([i \in 1..W |-> a[i] * b[i]])

BitOr(a, b) == Word([i \in 1..W |-> IF a[i] + b[i] > 0 THEN 1 ELSE 0])

BitXor(a, b) == Word([i \in 1..W |-> (a[i] + b[i]) % 2])

\* v >> k and v << k for 0 <= k < 64
Shr(v, k) == Word([i \in 1..W |-> IF i + k <= W THEN v[i + k] ELSE 0])

Shl(v, k) == Word([i \in 1..W |-> IF i - k >= 1 THEN v[i - k] ELSE 0])

\* u64::leading_zeros / u64::trailing_zeros
leading_zeros(v) ==
    IF v = ZeroU64 THEN W
    ELSE W - (CHOOSE i \in 1..W : v[i] = 1 /\ \A j \in (i + 1)..W : v[j] = 0)

trailing_zeros(v) ==
    IF v = ZeroU64 THEN W
    ELSE (CHOOSE i \in 1..W : v[i] = 1 /\ \A j \in 1..(i - 1) : v[j] = 0) - 1

\* zero-extension of a bit sequence of at most 64 bits to a word
ZeroExtend(b) == Word([i \in 1..W |-> IF i <= Len(b) THEN b[i] ELSE 0])

-----------------------------------------------------------------------------
(* Results *)

Ok(x) == [ok |-> TRUE, val |-> x]

Err(e) == [ok |-> FALSE, err |-> e]

\* The({body : x \in {e}}) is `LET x == e IN body`, with e computed once
The(S) == CHOOSE y \in S : TRUE

-----------------------------------------------------------------------------
(* bitstream_io with LittleEndian: bits are emitted least significant first *)

\* bit_io::BitWriter::write(bits, value): refuses a value that does not fit
bitio_write(stream, nbits, value) ==
    IF nbits > W THEN Err("BitStreamIOError")
    ELSE IF nbits < W /\ \E i \in (nbits + 1)..W : value[i] = 1
    THEN Err("BitStreamIOError")
    ELSE Ok(stream \o SubSeq(value, 1, nbits))

\* Vec<u8> held by the bit writer: eight bits per byte, first bit lowest
PackBytes(bits) ==
    Tuple([k \in 1..(Len(bits) \div 8) |-> BitsToNat(SubSeq(bits, 8 * (k - 1) + 1, 8 * k))])

\* bit `pos` (0-based) of a byte buffer
ByteBit(bytes, pos) == (bytes[(pos \div 8) + 1] \div Pow2(pos % 8)) % 2

\* bit_io::BitReader::read_bit / read::<u64>(n) on a Cursor<Vec<u8>>
bitio_read_bit(bytes, pos) ==
    IF pos + 1 > 8 * Len(bytes) THEN Err("BitStreamIOError")
    ELSE Ok(ByteBit(bytes, pos))

bitio_read(bytes, pos, n) ==
    IF n > W \/ pos + n > 8 * Len(bytes) THEN Err("BitStreamIOError")
    ELSE Ok(Word([i \in 1..W |-> IF i <= n THEN ByteBit(bytes, pos + i - 1) ELSE 0]))

-----------------------------------------------------------------------------
(* BitWriter, BitStream, BitReader *)

BitWriter_new == [n |-> 0, bitstream |-> <<>>]

BitWriter_write_bit(w, bit) ==
    Ok([n |-> w.n + 1, bitstream |-> Append(w.bitstream, IF bit THEN 1 ELSE 0)])

\* (1 << nbits) - 1 for nbits < 64, u64::MAX otherwise
WriteMask(nbits) ==
    IF nbits < W THEN Word([i \in 1..W |-> IF i <= nbits THEN 1 ELSE 0]) ELSE MaxU64

BitWriter_write(w, nbits, val) ==
    The({IF r.ok THEN Ok([n |-> w.n + nbits, bitstream |-> r.val]) ELSE r :
         r \in {bitio_write(w.bitstream, nbits, BitAnd(val, WriteMask(nbits)))}})

\* close that always starts a new byte of padding
BitWriter_close_fullbyte(w) ==
    LET fill_bits == ((1 + (w.n \div 8)) * 8) - w.n
        padded == bitio_write(w.bitstream, fill_bits, ZeroU64).val
    IN [n |-> w.n, bitstream |-> PackBytes(padded)]

BitWriter_close(w) ==
    LET fill_bits == IF w.n % 8 = 0 THEN 0 ELSE ((1 + (w.n \div 8)) * 8) - w.n
        padded == bitio_write(w.bitstream, fill_bits, ZeroU64).val
    IN [n |-> w.n, bitstream |-> PackBytes(padded)]

BitReader_new(stream) ==
    [n |-> stream.n, c |-> 0, bitstream |-> stream.bitstream, pos |-> 0]

\* each returns <<result, reader'>>
BitReader_read_bit(r) ==
    IF r.c <= r.n
    THEN The({IF x.ok
              THEN <<Ok(x.val = 1), [r EXCEPT !.c = @ + 1, !.pos = @ + 1]>>
              ELSE <<x, r>> :
              x \in {bitio_read_bit(r.bitstream, r.pos)}})
    ELSE <<Err("BitReaderError"), r>>

BitReader_read_strict(r, n) ==
    IF r.c + n < r.n
    THEN The({IF x.ok
              THEN <<x, [r EXCEPT !.c = @ + n, !.pos = @ + n]>>
              ELSE <<x, r>> :
              x \in {bitio_read(r.bitstream, r.pos, n)}})
    ELSE <<Err("BitReaderError"), r>>

BitReader_read(r, n) ==
    IF r.c + n <= r.n
    THEN The({IF x.ok
              THEN <<x, [r EXCEPT !.c = @ + n, !.pos = @ + n]>>
              ELSE <<x, r>> :
              x \in {bitio_read(r.bitstream, r.pos, n)}})
    ELSE <<Err("BitReaderError"), r>>

-----------------------------------------------------------------------------
(* Arithmetic whose overflow depends on the build profile: with overflow    *)
(* checks (debug) it panics, without them (release) it wraps.               *)

Panic == Err("panic")

\* a - b on u8
U8Sub(a, b) ==
    IF a >= b THEN Ok(a - b)
    ELSE IF overflow_checks THEN Panic ELSE Ok(a - b + 256)

\* a - b - c on u8
U8Sub2(a, b, c) ==
    The({IF n1.ok THEN U8Sub(n1.val, c) ELSE n1 : n1 \in {U8Sub(a, b)}})

\* v << k and v >> k with a u8 shift amount
ShlU64(v, k) ==
    IF k < W THEN Ok(Shl(v, k))
    ELSE IF overflow_checks THEN Panic ELSE Ok(Shl(v, k % W))

ShrU64(v, k) ==
    IF k < W THEN Ok(Shr(v, k))
    ELSE IF overflow_checks THEN Panic ELSE Ok(Shr(v, k % W))

\* a u64 read as i64, for values in the 32-bit signed range
U64ToI64(v) ==
    IF v[W] = 0 THEN Low31(v)
    ELSE (Low31(v) - 1073741824) - 1073741824

\* x > max for a word x and a number max < 2^31
WordGT(x, max) == (\E i \in 32..W : x[i] = 1) \/ Low31(x) > max

\* a sequence of `self.body.write_bit(b)?` / `self.body.write(n, v)?` statements
RECURSIVE WriteAll(_, _)
WriteAll(w, fs) ==
    IF fs = <<>> THEN Ok(w)
    ELSE The({IF r.ok THEN WriteAll(r.val, Tail(fs)) ELSE r :
              r \in {IF fs[1][1] = "bit"
                     THEN BitWriter_write_bit(w, fs[1][2])
                     ELSE BitWriter_write(w, fs[1][2], fs[1][3])}})

WBit(b) == <<"bit", b>>

WBits(n, v) == <<"bits", n, v>>

-----------------------------------------------------------------------------
(* GorillaWriter (gorilla/writer.rs).  An f64 is held as its bit pattern.   *)

F64_0 == ZeroU64

InitZeros == [leading |-> 32, trailing |-> 32]

GorillaWriter_with_vec(header) ==
    [header |-> header,
     prev_ts |-> header,
     prev_delta |-> 0,
     prev_value |-> F64_0,
     prev_zeros |-> InitZeros,
     body |-> BitWriter_write(BitWriter_new, 64, ToU64(header)).val]

GorillaWriter_close(w) == BitWriter_close(w.body)

GorillaWriter_validate_timestamp(w, time) ==
    LET delta == time - w.prev_ts
    IN IF delta < 0 THEN Err("AppendOrderError")
       ELSE IF delta > 16384 THEN Err("AppendDurationError")
       ELSE Ok(delta)

GorillaWriter_append_first(w, entry) ==
    The({IF ~delta.ok THEN delta
         ELSE The({IF ~b.ok THEN b
                   ELSE Ok([w EXCEPT !.body = b.val,
                                     !.prev_value = entry.value,
                                     !.prev_ts = entry.time,
                                     !.prev_delta = delta.val]) :
                   b \in {WriteAll(w.body, <<WBits(14, ToU64(delta.val)),
                                             WBits(64, entry.value)>>)}}) :
         delta \in {GorillaWriter_validate_timestamp(w, entry.time)}})

\* the value code for the XOR with the previous value, given the window:
\* Ok([fields, zeros]) or a panic
ValueCode(xored, prev_zeros) ==
    The({
        LET inside_block == lz >= prev_zeros.leading /\ tz >= prev_zeros.trailing
            leading == IF inside_block THEN prev_zeros.leading ELSE lz
            trailing == IF inside_block THEN prev_zeros.trailing ELSE tz
        IN The({
            IF ~nbits.ok THEN nbits
            ELSE IF ~to_write.ok THEN to_write
            ELSE IF xored = ZeroU64
            THEN Ok([fields |-> <<WBit(FALSE)>>, zeros |-> prev_zeros])
            ELSE IF inside_block
            THEN Ok([fields |-> <<WBit(TRUE), WBit(FALSE),
                                  WBits(nbits.val, to_write.val)>>,
                     zeros |-> prev_zeros])
            ELSE Ok([fields |-> <<WBit(TRUE), WBit(TRUE), WBits(5, ToU64(leading)),
                                  WBits(6, ToU64(nbits.val)),
                                  WBits(nbits.val, to_write.val)>>,
                     zeros |-> [leading |-> leading, trailing |-> trailing]]) :
            nbits \in {U8Sub2(64, leading, trailing)},
            to_write \in {ShrU64(xored, trailing)}}) :
        lz \in {leading_zeros(xored)}, tz \in {trailing_zeros(xored)}})

GorillaWriter_append_value_keepwindow(w, value) ==
    The({IF ~code.ok THEN code
         ELSE The({IF ~b.ok THEN b
                   ELSE Ok([w EXCEPT !.body = b.val, !.prev_value = value]) :
                   b \in {WriteAll(w.body, code.val.fields)}}) :
         code \in {ValueCode(BitXor(value, w.prev_value), w.prev_zeros)}})

GorillaWriter_append_value(w, value) ==
    The({IF ~code.ok THEN code
         ELSE The({IF ~b.ok THEN b
                   ELSE Ok([w EXCEPT !.body = b.val,
                                     !.prev_zeros = code.val.zeros,
                                     !.prev_value = value]) :
                   b \in {WriteAll(w.body, code.val.fields)}}) :
         code \in {ValueCode(BitXor(value, w.prev_value), w.prev_zeros)}})

TimeCode_symmetric(delta_of_delta) ==
    IF delta_of_delta = 0
    THEN <<WBit(FALSE)>>
    ELSE IF delta_of_delta >= -64 /\ delta_of_delta <= 63
    THEN <<WBit(TRUE), WBit(FALSE), WBits(7, ToU64(delta_of_delta))>>
    ELSE IF delta_of_delta >= -256 /\ delta_of_delta <= 255
    THEN <<WBit(TRUE), WBit(TRUE), WBit(FALSE), WBits(9, ToU64(delta_of_delta))>>
    ELSE IF delta_of_delta >= -2048 /\ delta_of_delta <= 2047
    THEN <<WBit(TRUE), WBit(TRUE), WBit(TRUE), WBit(FALSE), WBits(12, ToU64(delta_of_delta))>>
    ELSE <<WBit(TRUE), WBit(TRUE), WBit(TRUE), WBit(TRUE), WBits(32, ToU64(delta_of_delta))>>

\* the timestamp code of a delta-of-delta
TimeCode(delta_of_delta) ==
    IF delta_of_delta = 0
    THEN <<WBit(FALSE)>>
    ELSE IF delta_of_delta >= -63 /\ delta_of_delta <= 64
    THEN <<WBit(TRUE), WBit(FALSE), WBits(7, ToU64(delta_of_delta))>>
    ELSE IF delta_of_delta >= -255 /\ delta_of_delta <= 256
    THEN <<WBit(TRUE), WBit(TRUE), WBit(FALSE), WBits(9, ToU64(delta_of_delta))>>
    ELSE IF delta_of_delta >= -2047 /\ delta_of_delta <= 2048
    THEN <<WBit(TRUE), WBit(TRUE), WBit(TRUE), WBit(FALSE), WBits(12, ToU64(delta_of_delta))>>
    ELSE <<WBit(TRUE), WBit(TRUE), WBit(TRUE), WBit(TRUE), WBits(32, ToU64(delta_of_delta))>>

GorillaWriter_append_time(w, time) ==
    The({IF ~delta.ok THEN delta
         ELSE The({IF ~b.ok THEN b
                   ELSE Ok([w EXCEPT !.body = b.val,
                                     !.prev_delta = delta.val,
                                     !.prev_ts = time]) :
                   b \in {WriteAll(w.body, TimeCode(delta.val - w.prev_delta))}}) :
         delta \in {GorillaWriter_validate_timestamp(w, time)}})

GorillaWriter_append_entry(w, entry) ==
    The({IF ~t.ok THEN t ELSE GorillaWriter_append_value(t.val, entry.value) :
         t \in {GorillaWriter_append_time(w, entry.time)}})

-----------------------------------------------------------------------------
(* GorillaReader (gorilla/reader.rs).  A reader call returns                *)
(* [res |-> Ok(value) or a panic (an unwrap of an error, or an arithmetic   *)
(* overflow in a build with overflow checks), rd |-> the reader after it].  *)

Ret(v, rd) == [res |-> Ok(v), rd |-> rd]

Panicked(rd) == [res |-> Panic, rd |-> rd]

GorillaReader_from_writer(writer) ==
    The({The({
        IF ~h[1].ok THEN Panicked(reader0)
        ELSE The({
            IF ~d[1].ok THEN Panicked(reader0)
            ELSE The({
                IF ~v[1].ok THEN Panicked(reader0)
                ELSE LET header == U64ToI64(h[1].val)
                         time == header + U64ToI64(d[1].val)
                     IN Ret(TRUE,
                            [entry |-> [time |-> time, value |-> v[1].val],
                             prev_entry |-> [time |-> header, value |-> F64_0],
                             prev_diff |-> 0,
                             prev_zeros |-> InitZeros,
                             reader |-> v[2]]) :
                v \in {BitReader_read(d[2], 64)}}) :
            d \in {BitReader_read(h[2], 14)}}) :
        h \in {BitReader_read(reader0, 64)}}) :
        reader0 \in {BitReader_new(GorillaWriter_close(writer))}})

GorillaReader_next(g) ==
    Ret(g.entry, [g EXCEPT !.prev_diff = g.entry.time - g.prev_entry.time,
                           !.prev_entry = g.entry])

\* the 0b10 branch of get_next_value, from the bit reader `r` positioned after
\* the prefix: [res |-> Ok([val, zeros]) or a panic, r |-> the bit reader]
ReadWindowXor(r, prev_value, prev_zeros) ==
    The({
        IF ~nbits.ok THEN [res |-> Panic, r |-> r]
        ELSE The({
            IF ~x[1].ok THEN [res |-> Panic, r |-> r]
            ELSE The({
                IF ~xored.ok THEN [res |-> Panic, r |-> r]
                ELSE [res |-> Ok([val |-> BitXor(prev_value, xored.val),
                                  zeros |-> prev_zeros]),
                      r |-> x[2]] :
                xored \in {ShlU64(x[1].val, prev_zeros.trailing)}}) :
            x \in {BitReader_read(r, nbits.val)}}) :
        nbits \in {U8Sub2(64, prev_zeros.leading, prev_zeros.trailing)}})

\* the 0b11 branch of get_next_value
ReadFreshXor(r, prev_value) ==
    The({
        IF ~l[1].ok THEN [res |-> Panic, r |-> r]
        ELSE The({
            IF ~n[1].ok THEN [res |-> Panic, r |-> r]
            ELSE The({The({
                IF ~trailing.ok THEN [res |-> Panic, r |-> r]
                ELSE The({
                    IF ~x[1].ok THEN [res |-> Panic, r |-> r]
                    ELSE The({
                        IF ~xored.ok THEN [res |-> Panic, r |-> r]
                        ELSE [res |-> Ok([val |-> BitXor(prev_value, xored.val),
                                          zeros |-> [leading |-> leading,
                                                     trailing |-> trailing.val]]),
                              r |-> x[2]] :
                        xored \in {ShlU64(x[1].val, trailing.val)}}) :
                    x \in {BitReader_read(n[2], nbits)}}) :
                trailing \in {U8Sub2(64, leading, nbits)}}) :
                leading \in {Low31(l[1].val)}, nbits \in {Low31(n[1].val)}}) :
            n \in {BitReader_read(l[2], 6)}}) :
        l \in {BitReader_read(r, 5)}})

GorillaReader_get_next_value(g) ==
    The({
        IF ~b1[1].ok THEN Panicked(g)
        ELSE IF ~b1[1].val
        THEN Ret(g.prev_entry.value, [g EXCEPT !.reader = b1[2]])
        ELSE The({
            IF ~b2[1].ok THEN Panicked(g)
            ELSE The({
                IF ~x.res.ok THEN Panicked(g)
                ELSE Ret(x.res.val.val,
                         [g EXCEPT !.reader = x.r,
                                   !.prev_zeros = x.res.val.zeros,
                                   !.prev_entry.value = x.res.val.val]) :
                x \in {IF ~b2[1].val
                       THEN ReadWindowXor(b2[2], g.prev_entry.value, g.prev_zeros)
                       ELSE ReadFreshXor(b2[2], g.prev_entry.value)}}) :
            b2 \in {BitReader_read_bit(b1[2])}}) :
        b1 \in {BitReader_read_bit(g.reader)}})

\* the closure to_dod of get_next_time
to_dod(x, shift, max) ==
    IF WordGT(x, max) THEN U64ToI64(BitOr(x, Shl(MaxU64, shift))) ELSE U64ToI64(x)

\* the prefix of a timestamp code: [res |-> Ok(<<bits, max>>), r |-> bit reader],
\* with bits = 0 for the prefix 0 (the early return of get_next_time)
ReadTimePrefix(r) ==
    The({
        IF ~b1[1].ok THEN [res |-> Panic, r |-> r]
        ELSE IF ~b1[1].val THEN [res |-> Ok(<<0, 0>>), r |-> b1[2]]
        ELSE The({
            IF ~b2[1].ok THEN [res |-> Panic, r |-> r]
            ELSE IF ~b2[1].val THEN [res |-> Ok(<<7, 64>>), r |-> b2[2]]
            ELSE The({
                IF ~b3[1].ok THEN [res |-> Panic, r |-> r]
                ELSE IF ~b3[1].val THEN [res |-> Ok(<<9, 256>>), r |-> b3[2]]
                ELSE The({
                    IF ~b4[1].ok THEN [res |-> Panic, r |-> r]
                    ELSE IF ~b4[1].val THEN [res |-> Ok(<<12, 2048>>), r |-> b4[2]]
                    ELSE [res |-> Ok(<<32, 2147483647>>), r |-> b4[2]] :
                    b4 \in {BitReader_read_bit(b3[2])}}) :
                b3 \in {BitReader_read_bit(b2[2])}}) :
            b2 \in {BitReader_read_bit(b1[2])}}) :
        b1 \in {BitReader_read_bit(r)}})

GorillaReader_get_next_time(g) ==
    The({
        IF ~p.res.ok THEN Panicked(g)
        ELSE IF p.res.val[1] = 0
        THEN Ret(g.prev_entry.time + g.prev_diff, [g EXCEPT !.reader = p.r])
        ELSE The({
            IF ~x[1].ok THEN Panicked(g)
            ELSE The({
                Ret(g.prev_entry.time + diff,
                    [g EXCEPT !.reader = x[2],
                              !.prev_entry.time = g.prev_entry.time + diff,
                              !.prev_diff = diff]) :
                diff \in {to_dod(x[1].val, p.res.val[1], p.res.val[2]) + g.prev_diff}}) :
            x \in {BitReader_read(p.r, p.res.val[1])}}) :
        p \in {ReadTimePrefix(g.reader)}})

-----------------------------------------------------------------------------
(* GorillaWriterMV (gorilla/writer_mv.rs).  values is a sequence of f64 bit *)
(* patterns; the source's index i in 0..dim is i + 1 here.                  *)

\* vec![x; dim]
Repeat(x, dim) == Tuple([i \in 1..dim |-> x])

GorillaWriterMV_with_vec(header, dim) ==
    [dim |-> dim,
     header |-> header,
     prev_ts |-> header,
     prev_delta |-> 0,
     prev_value |-> Repeat(F64_0, dim),
     prev_zeros |-> Repeat(InitZeros, dim),
     body |-> BitWriter_write(BitWriter_new, 64, ToU64(header)).val]

GorillaWriterMV_close(w) == BitWriter_close(w.body)

GorillaWriterMV_validate_values(w, values) ==
    IF Len(values) # w.dim THEN Err("BadDimensionError") ELSE Ok(TRUE)

\* the delta check of validate_timestamp with the bound off by one
GorillaWriterMV_validate_timestamp_strict(w, time) ==
    LET delta == time - w.prev_ts
    IN IF delta < 0 THEN Err("AppendOrderError")
       ELSE IF delta >= 16384 THEN Err("AppendDurationError")
       ELSE Ok(delta)

GorillaWriterMV_validate_timestamp(w, time) ==
    LET delta == time - w.prev_ts
    IN IF delta < 0 THEN Err("AppendOrderError")
       ELSE IF delta > 16384 THEN Err("AppendDurationError")
       ELSE Ok(delta)

\* iterations i.. of the loop of append_values
RECURSIVE AppendValuesFrom(_, _, _)
AppendValuesFrom(w, values, i) ==
    IF i > w.dim THEN Ok(w)
    ELSE The({
        IF ~code.ok THEN code
        ELSE The({
            IF ~b.ok THEN b
            ELSE AppendValuesFrom([w EXCEPT !.body = b.val,
                                            !.prev_zeros[i] = code.val.zeros,
                                            !.prev_value[i] = values[i]],
                                  values, i + 1) :
            b \in {WriteAll(w.body, code.val.fields)}}) :
        code \in {ValueCode(BitXor(values[i], w.prev_value[i]), w.prev_zeros[i])}})

\* append_values with one window for all dimensions: the window the last
\* dimension leaves is the window of every dimension
GorillaWriterMV_append_values_shared(w, values) ==
    The({IF ~v.ok THEN v
         ELSE The({IF ~r.ok THEN r
                   ELSE Ok([r.val EXCEPT !.prev_zeros =
                                Repeat(r.val.prev_zeros[w.dim], w.dim)]) :
                   r \in {AppendValuesFrom(w, values, 1)}}) :
         v \in {GorillaWriterMV_validate_values(w, values)}})

GorillaWriterMV_append_values(w, values) ==
    The({IF ~v.ok THEN v ELSE AppendValuesFrom(w, values, 1) :
         v \in {GorillaWriterMV_validate_values(w, values)}})

GorillaWriterMV_append_time(w, time) ==
    The({IF ~delta.ok THEN delta
         ELSE The({IF ~b.ok THEN b
                   ELSE Ok([w EXCEPT !.body = b.val,
                                     !.prev_delta = delta.val,
                                     !.prev_ts = time]) :
                   b \in {WriteAll(w.body, TimeCode(delta.val - w.prev_delta))}}) :
         delta \in {GorillaWriterMV_validate_timestamp(w, time)}})

GorillaWriterMV_append_entry(w, entry) ==
    The({IF ~v.ok THEN v
         ELSE The({IF ~t.ok THEN t
                   ELSE GorillaWriterMV_append_values(t.val, entry.values) :
                   t \in {GorillaWriterMV_append_time(w, entry.time)}}) :
         v \in {GorillaWriterMV_validate_values(w, entry.values)}})

\* self of append_entry after validate_values, had the time been appended
\* before the values were counted
GorillaWriterMV_append_entry_self_timefirst(w, entry) ==
    The({IF ~t.ok THEN w
         ELSE The({IF a.ok THEN a.val ELSE t.val :
                   a \in {GorillaWriterMV_append_values(t.val, entry.values)}}) :
         t \in {GorillaWriterMV_append_time(w, entry.time)}})

\* the writer behind `&mut self` when append_entry returns: a `?` that
\* returns early keeps what the calls before it have stored
GorillaWriterMV_append_entry_self(w, entry) ==
    The({IF ~v.ok THEN w
         ELSE The({IF ~t.ok THEN w
                   ELSE The({IF a.ok THEN a.val ELSE t.val :
                             a \in {GorillaWriterMV_append_values(t.val, entry.values)}}) :
                   t \in {GorillaWriterMV_append_time(w, entry.time)}}) :
         v \in {GorillaWriterMV_validate_values(w, entry.values)}})

\* the fields append_first writes: the delta in 14 bits, then every value raw
FirstFields(delta, values) ==
    <<WBits(14, ToU64(delta))>> \o Tuple([i \in 1..Len(values) |-> WBits(64, values[i])])

GorillaWriterMV_append_first(w, entry) ==
    The({IF ~delta.ok THEN delta
         ELSE The({IF ~b.ok THEN b
                   ELSE Ok([w EXCEPT !.body = b.val,
                                     !.prev_value = entry.values,
                                     !.prev_ts = entry.time,
                                     !.prev_delta = delta.val]) :
                   b \in {WriteAll(w.body, FirstFields(delta.val,
                                                       SubSeq(entry.values, 1, w.dim)))}}) :
         delta \in {GorillaWriterMV_validate_timestamp(w, entry.time)}})

-----------------------------------------------------------------------------
(* GorillaReaderMV (gorilla/reader_mv.rs) *)

GorillaReaderMV_from_block(block, dim) ==
    The({
        IF ~h[1].ok THEN Panicked(BitReader_new(block))
        ELSE The({
            Ret(TRUE,
                [dim |-> dim,
                 entry |-> [time |-> header, values |-> Repeat(F64_0, dim)],
                 prev_entry |-> [time |-> header, values |-> Repeat(F64_0, dim)],
                 prev_diff |-> 0,
                 prev_zeros |-> Repeat(InitZeros, dim),
                 reader |-> h[2]]) :
            header \in {U64ToI64(h[1].val)}}) :
        h \in {BitReader_read(BitReader_new(block), 64)}})

\* iterations i.. of the loop of get_next_values; values holds the results
RECURSIVE NextValuesFrom(_, _, _)
NextValuesFrom(g, values, i) ==
    IF i > g.dim THEN Ret(values, g)
    ELSE The({
        IF ~b1[1].ok THEN Panicked(g)
        ELSE IF ~b1[1].val
        THEN NextValuesFrom([g EXCEPT !.reader = b1[2]],
                            [values EXCEPT ![i] = g.prev_entry.values[i]], i + 1)
        ELSE The({
            IF ~b2[1].ok THEN Panicked(g)
            ELSE The({
                IF ~x.res.ok THEN Panicked(g)
                ELSE NextValuesFrom([g EXCEPT !.reader = x.r,
                                              !.prev_zeros[i] = x.res.val.zeros,
                                              !.prev_entry.values[i] = x.res.val.val],
                                    [values EXCEPT ![i] = x.res.val.val], i + 1) :
                x \in {IF ~b2[1].val
                       THEN ReadWindowXor(b2[2], g.prev_entry.values[i], g.prev_zeros[i])
                       ELSE ReadFreshXor(b2[2], g.prev_entry.values[i])}}) :
            b2 \in {BitReader_read_bit(b1[2])}}) :
        b1 \in {BitReader_read_bit(g.reader)}})

GorillaReaderMV_get_next_values(g) == NextValuesFrom(g, Repeat(F64_0, g.dim), 1)

GorillaReaderMV_get_next_time(g) ==
    The({
        IF ~p.res.ok THEN Panicked(g)
        ELSE IF p.res.val[1] = 0
        THEN Ret(g.prev_entry.time + g.prev_diff, [g EXCEPT !.reader = p.r])
        ELSE The({
            IF ~x[1].ok THEN Panicked(g)
            ELSE The({
                Ret(g.prev_entry.time + diff,
                    [g EXCEPT !.reader = x[2],
                              !.prev_entry.time = g.prev_entry.time + diff,
                              !.prev_diff = diff]) :
                diff \in {to_dod(x[1].val, p.res.val[1], p.res.val[2]) + g.prev_diff}}) :
            x \in {BitReader_read(p.r, p.res.val[1])}}) :
        p \in {ReadTimePrefix(g.reader)}})

-----------------------------------------------------------------------------
(* gorilla/api.rs *)

\* iterations i.. of the loop of compress_values; the assert panics
RECURSIVE CompressFrom(_, _, _)
CompressFrom(writer, mv_entries, i) ==
    IF i > Len(mv_entries) THEN Ok(writer)
    ELSE The({IF ~r.ok THEN Panic ELSE CompressFrom(r.val, mv_entries, i + 1) :
              r \in {GorillaWriterMV_append_entry(writer, mv_entries[i])}})

\* Ok(block), or a panic
compress_values(mv_entries, header, dim) ==
    The({IF ~writer.ok THEN writer ELSE Ok(GorillaWriterMV_close(writer.val)) :
         writer \in {CompressFrom(GorillaWriterMV_with_vec(header, dim), mv_entries, 1)}})

\* iterations i.. of the loop of retrieve_values
RECURSIVE RetrieveFrom(_, _, _, _)
RetrieveFrom(reader, result, i, num_entries) ==
    IF i > num_entries THEN Ok(result)
    ELSE The({
        IF ~ts.res.ok THEN Panic
        ELSE The({
            IF ~values.res.ok THEN Panic
            ELSE RetrieveFrom(values.rd,
                              Append(result, [time |-> ts.res.val,
                                              values |-> values.res.val]),
                              i + 1, num_entries) :
            values \in {GorillaReaderMV_get_next_values(ts.rd)}}) :
        ts \in {GorillaReaderMV_get_next_time(reader)}})

\* Ok(entries), or a panic
retrieve_values(block, dim, num_entries) ==
    The({IF ~reader.res.ok THEN Panic
         ELSE RetrieveFrom(reader.rd, <<>>, 1, num_entries) :
         reader \in {GorillaReaderMV_from_block(block, dim)}})
-----------------------------------------------------------------------------
(* Byte strings.  A string (a key, a value, a file's contents) is the      *)
(* run-length encoding of its bytes: a sequence of <<byte, count>> runs     *)
(* with count > 0 and no two adjacent runs of the same byte, so that equal  *)
(* strings are equal sequences.                                             *)

\* concatenation
RCat(a, b) ==
    IF a = <<>> THEN b
    ELSE IF b = <<>> THEN a
    ELSE IF a[Len(a)][1] = b[1][1]
    THEN SubSeq(a, 1, Len(a) - 1) \o <<<<b[1][1], a[Len(a)][2] + b[1][2]>>>> \o Tail(b)
    ELSE a \o b

\* the string of the given bytes
RECURSIVE FromBytes(_)
FromBytes(bytes) ==
    IF bytes = <<>> THEN <<>> ELSE RCat(<<<<bytes[1], 1>>>>, FromBytes(Tail(bytes)))

\* len()
RECURSIVE RLen(_)
RLen(s) == IF s = <<>> THEN 0 ELSE s[1][2] + RLen(Tail(s))

\* the first n bytes (all of s when it is shorter)
RECURSIVE RTake(_, _)
RTake(s, n) ==
    IF n = 0 \/ s = <<>> THEN <<>>
    ELSE IF s[1][2] <= n THEN <<s[1]>> \o RTake(Tail(s), n - s[1][2])
    ELSE <<<<s[1][1], n>>>>

\* s without its first n bytes
RECURSIVE RDrop(_, _)
RDrop(s, n) ==
    IF n = 0 \/ s = <<>> THEN s
    ELSE IF s[1][2] <= n THEN RDrop(Tail(s), n - s[1][2])
    ELSE <<<<s[1][1], s[1][2] - n>>>> \o Tail(s)

\* the byte at offset i < len
RECURSIVE RByte(_, _)
RByte(s, i) == IF i < s[1][2] THEN s[1][1] ELSE RByte(Tail(s), i - s[1][2])

\* a <= b in the byte-lexicographic order of String
RECURSIVE RLeq(_, _)
RLeq(a, b) ==
    IF a = <<>> THEN TRUE
    ELSE IF b = <<>> THEN FALSE
    ELSE IF a[1][1] # b[1][1] THEN a[1][1] < b[1][1]
    ELSE LET m == IF a[1][2] <= b[1][2] THEN a[1][2] ELSE b[1][2]
         IN RLeq(RDrop(a, m), RDrop(b, m))

\* write_u32::<LittleEndian>(x as u32), for x < 2^31
U32LE(x) ==
    FromBytes(<<x % 256, (x \div 256) % 256, (x \div 65536) % 256, (x \div 16777216) % 256>>)

\* write_u8(x as u8)
U8Byte(x) == FromBytes(<<x % 256>>)

Some(v) == [some |-> TRUE, val |-> v]

None == [some |-> FALSE]

-----------------------------------------------------------------------------
(* Files.  A file system maps the paths that exist to their contents; a     *)
(* reader is a position in a file's contents.                               *)

\* fs::File::create(path): the file exists and is empty
FileCreate(files, path) == [p \in DOMAIN files \cup {path} |->
                                IF p = path THEN <<>> ELSE files[p]]

\* write_all at the end of the file
FileAppend(files, path, data) == [files EXCEPT ![path] = RCat(@, data)]

\* read_exact of n bytes at pos: Ok([data, pos]) or an error
ReadExact(file, pos, n) ==
    IF pos + n > RLen(file) THEN Err("UnexpectedEof")
    ELSE Ok([data |-> RTake(RDrop(file, pos), n), pos |-> pos + n])

\* read_u32::<LittleEndian>() at pos: Ok([data, pos]) or an error
ReadU32(file, pos) ==
    The({IF ~r.ok THEN r
         ELSE Ok([data |-> RByte(r.val.data, 0) + 256 * RByte(r.val.data, 1)
                           + 65536 * RByte(r.val.data, 2)
                           + 16777216 * RByte(r.val.data, 3),
                  pos |-> r.val.pos]) :
         r \in {ReadExact(file, pos, 4)}})

\* read_u8() at pos
ReadU8(file, pos) ==
    The({IF ~r.ok THEN r
         ELSE Ok([data |-> RByte(r.val.data, 0), pos |-> r.val.pos]) :
         r \in {ReadExact(file, pos, 1)}})

\* a length-prefixed string at pos: read_u32 then read_exact
ReadLenString(file, pos) ==
    The({IF ~n.ok THEN n ELSE ReadExact(file, n.val.pos, n.val.data) :
         n \in {ReadU32(file, pos)}})

\* BufWriter<File>::write_all(data): w is [path, buf]; the buffer is written
\* out when data does not fit, and data as large as the buffer bypasses it
BufWriter_write_all(w, files, data) ==
    LET spill == RLen(w.buf) + RLen(data) > 8192
        files1 == IF spill THEN FileAppend(files, w.path, w.buf) ELSE files
        buf1 == IF spill THEN <<>> ELSE w.buf
    IN IF RLen(data) >= 8192
       THEN [w |-> [w EXCEPT !.buf = buf1], files |-> FileAppend(files1, w.path, data)]
       ELSE [w |-> [w EXCEPT !.buf = RCat(buf1, data)], files |-> files1]

RECURSIVE BufWriter_write_each(_, _, _)
BufWriter_write_each(w, files, datas) ==
    IF datas = <<>> THEN [w |-> w, files |-> files]
    ELSE The({BufWriter_write_each(r.w, r.files, Tail(datas)) :
              r \in {BufWriter_write_all(w, files, datas[1])}})

BufWriter_flush(w, files) ==
    [w |-> [w EXCEPT !.buf = <<>>], files |-> FileAppend(files, w.path, w.buf)]

-----------------------------------------------------------------------------
(* SSTable files (storage/sstable.rs) *)

\* HashMap
EmptyMap == [k \in {} |-> 0]

MapInsert(m, key, v) == [k \in DOMAIN m \cup {key} |-> IF k = key THEN v ELSE m[k]]

\* the loop of open() that loads the index section
RECURSIVE LoadIndex(_, _, _, _)
LoadIndex(file, pos, remaining, sst_index) ==
    IF remaining = 0 THEN Ok(sst_index)
    ELSE The({
        IF ~key.ok THEN key
        ELSE The({
            IF ~offset.ok THEN offset
            ELSE LoadIndex(file, offset.val.pos, remaining - 1,
                           MapInsert(sst_index, key.val.data, offset.val.data)) :
            offset \in {ReadU32(file, key.val.pos)}}) :
        key \in {ReadLenString(file, pos)}})

SSTableFileReader_open(files, path) ==
    IF path \notin DOMAIN files THEN Err("NotFound")
    ELSE IF RLen(files[path]) - 8 < 0 THEN Err("InvalidInput")
    ELSE The({
        IF ~num_entries.ok THEN num_entries
        ELSE The({
            IF ~index_loc.ok THEN index_loc
            ELSE The({
                IF ~sst_index.ok THEN sst_index
                ELSE Ok([path |-> path,
                         num_entries |-> num_entries.val.data,
                         index |-> sst_index.val]) :
                sst_index \in {LoadIndex(files[path], index_loc.val.data,
                                         num_entries.val.data, EmptyMap)}}) :
            index_loc \in {ReadU32(files[path], num_entries.val.pos)}}) :
        num_entries \in {ReadU32(files[path], RLen(files[path]) - 8)}})

\* iter(): the iterator is [reader position, curr_entry]
SSTableFileReader_iter(files, sstable) ==
    IF sstable.path \notin DOMAIN files THEN Panic
    ELSE Ok([pos |-> 0, curr_entry |-> 0])

SSTableFileReader_get(files, sstable, key) ==
    IF key \notin DOMAIN sstable.index THEN Ok(None)
    ELSE IF sstable.path \notin DOMAIN files THEN Err("NotFound")
    ELSE The({
        IF ~keylen.ok THEN keylen
        ELSE The({
            IF ~val.ok THEN val ELSE Ok(Some(val.val.data)) :
            val \in {ReadLenString(files[sstable.path],
                                   keylen.val.pos + keylen.val.data)}}) :
        keylen \in {ReadU32(files[sstable.path], sstable.index[key])}})

\* Ok([key, val, pos]) or an error
SSTableFileIter_read_entry(file, it) ==
    The({
        IF ~key.ok THEN key
        ELSE The({
            IF ~val.ok THEN val
            ELSE Ok([key |-> key.val.data, val |-> val.val.data, pos |-> val.val.pos]) :
            val \in {ReadLenString(file, key.val.pos)}}) :
        key \in {ReadLenString(file, it.pos)}})

\* stops one entry early
SSTableFileIter_next_short(files, sstable, it) ==
    IF it.curr_entry + 1 >= sstable.num_entries
    THEN [item |-> None, it |-> it, failed |-> FALSE]
    ELSE The({
        IF e.ok
        THEN [item |-> Some(<<e.val.key, e.val.val>>),
              it |-> [pos |-> e.val.pos, curr_entry |-> it.curr_entry + 1],
              failed |-> FALSE]
        ELSE [item |-> None, it |-> it, failed |-> TRUE] :
        e \in {SSTableFileIter_read_entry(files[sstable.path], it)}})

\* next(): [item, it, failed]; failed tells that read_entry returned an error,
\* after which the position of the reader is not specified
SSTableFileIter_next(files, sstable, it) ==
    IF it.curr_entry >= sstable.num_entries
    THEN [item |-> None, it |-> it, failed |-> FALSE]
    ELSE The({
        IF e.ok
        THEN [item |-> Some(<<e.val.key, e.val.val>>),
              it |-> [pos |-> e.val.pos, curr_entry |-> it.curr_entry + 1],
              failed |-> FALSE]
        ELSE [item |-> None, it |-> it, failed |-> TRUE] :
        e \in {SSTableFileIter_read_entry(files[sstable.path], it)}})

\* builder operations return Ok([b, files]) or an error
SSTableFileBuilder_new(files, path) ==
    Ok([b |-> [writer |-> [path |-> path, buf |-> <<>>],
               index |-> <<>>,
               bytes_written |-> 0],
        files |-> FileCreate(files, path)])

\* records the location after the entry instead of before it
SSTableFileBuilder_add_late(b, files, key, val) ==
    The({
        Ok([b |-> [writer |-> w.w,
                   index |-> Append(b.index,
                                    <<key, b.bytes_written + 4 + keylen + 4 + vallen>>),
                   bytes_written |-> b.bytes_written + 4 + keylen + 4 + vallen],
            files |-> w.files]) :
        keylen \in {RLen(key)}, vallen \in {RLen(val)},
        w \in {BufWriter_write_each(b.writer, files,
                                    <<U32LE(RLen(key)), key, U32LE(RLen(val)), val>>)}})

SSTableFileBuilder_add(b, files, key, val) ==
    The({
        Ok([b |-> [writer |-> w.w,
                   index |-> Append(b.index, <<key, b.bytes_written>>),
                   bytes_written |-> b.bytes_written + 4 + keylen + 4 + vallen],
            files |-> w.files]) :
        keylen \in {RLen(key)}, vallen \in {RLen(val)},
        w \in {BufWriter_write_each(b.writer, files,
                                    <<U32LE(RLen(key)), key, U32LE(RLen(val)), val>>)}})

\* the loop of merge_file over reader.iter()
RECURSIVE MergeFrom(_, _, _, _)
MergeFrom(b, files, reader, it) ==
    The({
        IF ~nx.item.some THEN Ok([b |-> b, files |-> files])
        ELSE The({
            IF ~r.ok THEN r ELSE MergeFrom(r.val.b, r.val.files, reader, nx.it) :
            r \in {SSTableFileBuilder_add(b, files, nx.item.val[1], nx.item.val[2])}}) :
        nx \in {SSTableFileIter_next(files, reader, it)}})

\* merges only the first entry of the file
SSTableFileBuilder_merge_file_first(b, files, path) ==
    The({
        IF ~reader.ok THEN reader
        ELSE The({
            IF ~it.ok THEN it
            ELSE The({
                IF ~nx.item.some THEN Ok([b |-> b, files |-> files])
                ELSE SSTableFileBuilder_add(b, files, nx.item.val[1], nx.item.val[2]) :
                nx \in {SSTableFileIter_next(files, reader.val, it.val)}}) :
            it \in {SSTableFileReader_iter(files, reader.val)}}) :
        reader \in {SSTableFileReader_open(files, path)}})

SSTableFileBuilder_merge_file(b, files, path) ==
    The({
        IF ~reader.ok THEN reader
        ELSE The({
            IF ~it.ok THEN it ELSE MergeFrom(b, files, reader.val, it.val) :
            it \in {SSTableFileReader_iter(files, reader.val)}}) :
        reader \in {SSTableFileReader_open(files, path)}})

\* the index section written by commit
RECURSIVE IndexBytes(_)
IndexBytes(index) ==
    IF index = <<>> THEN <<>>
    ELSE <<U32LE(RLen(index[1][1])), index[1][1], U32LE(index[1][2])>>
         \o IndexBytes(Tail(index))

\* commit that writes the two words of the footer in the other order
SSTableFileBuilder_commit_swapped(b, files) ==
    The({
        Ok([b |-> [b EXCEPT !.writer = f.w], files |-> f.files]) :
        f \in {The({
            BufWriter_flush(w.w, w.files) :
            w \in {BufWriter_write_each(b.writer, files,
                                        IndexBytes(b.index)
                                        \o <<U32LE(b.bytes_written),
                                             U32LE(Len(b.index))>>)}})}})

SSTableFileBuilder_commit(b, files) ==
    The({
        Ok([b |-> [b EXCEPT !.writer = f.w], files |-> f.files]) :
        f \in {The({
            BufWriter_flush(w.w, w.files) :
            w \in {BufWriter_write_each(b.writer, files,
                                        IndexBytes(b.index)
                                        \o <<U32LE(Len(b.index)),
                                             U32LE(b.bytes_written)>>)}})}})

-----------------------------------------------------------------------------
(* The LSM tree (storage/lsmtree.rs) *)

\* "rustydb.meta"
META_FILENAME == FromBytes(<<114, 117, 115, 116, 121, 100, 98, 46, 109, 101, 116, 97>>)

MEMTABLE_THRESHOLD == 4 * 1024 * 1024

\* format!("{}.sst", ufname)
SstFilename(ufname) == RCat(ufname, FromBytes(<<46, 115, 115, 116>>))

SSTableMeta_new(minkey, maxkey, ufname) ==
    [filename |-> SstFilename(ufname), level |-> 0, min_key |-> minkey, max_key |-> maxkey]

\* excludes the two ends of the range
SSTableMeta_in_range_open(meta, key) ==
    /\ RLeq(meta.min_key, key) /\ meta.min_key # key
    /\ RLeq(key, meta.max_key) /\ meta.max_key # key

SSTableMeta_in_range(meta, key) ==
    RLeq(meta.min_key, key) /\ RLeq(key, meta.max_key)

\* map is a function from the keys present to their values
MemTable_new == [map |-> EmptyMap, flush_size |-> 0]

\* keeps the value of a key already present
MemTable_insert_absent(m, key, val) ==
    [map |-> IF key \in DOMAIN m.map THEN m.map ELSE MapInsert(m.map, key, val),
     flush_size |-> m.flush_size + 2 * 4 + RLen(key) + RLen(val)]

MemTable_insert(m, key, val) ==
    [map |-> MapInsert(m.map, key, val),
     flush_size |-> m.flush_size + 2 * 4 + RLen(key) + RLen(val)]

MemTable_need_flush(m, key, val) ==
    LET pairsz == 2 * 4 + RLen(key) + RLen(val)
    IN m.flush_size + pairsz > MEMTABLE_THRESHOLD

\* the keys of a BTreeMap in iteration order
RECURSIVE SortedKeys(_)
SortedKeys(keys) ==
    IF keys = {} THEN <<>>
    ELSE The({<<first>> \o SortedKeys(keys \ {first}) :
              first \in {CHOOSE k \in keys : \A j \in keys : RLeq(k, j)}})

\* takes the key from the other end of the map
MemTable_get_minkey_back(m) ==
    IF DOMAIN m.map = {} THEN Panic
    ELSE Ok(SortedKeys(DOMAIN m.map)[Cardinality(DOMAIN m.map)])

\* keys().next().unwrap()
MemTable_get_minkey(m) ==
    IF DOMAIN m.map = {} THEN Panic ELSE Ok(SortedKeys(DOMAIN m.map)[1])

\* the first key in place of the last
MemTable_get_maxkey_front(m) ==
    IF DOMAIN m.map = {} THEN Panic ELSE Ok(SortedKeys(DOMAIN m.map)[1])

\* keys().next_back().unwrap()
MemTable_get_maxkey(m) ==
    IF DOMAIN m.map = {} THEN Panic
    ELSE Ok(SortedKeys(DOMAIN m.map)[Cardinality(DOMAIN m.map)])

MemTable_reset(m) == [map |-> EmptyMap, flush_size |-> 0]

RECURSIVE WriteEntriesFrom(_, _, _, _)
WriteEntriesFrom(m, keys, b, files) ==
    IF keys = <<>> THEN Ok([b |-> b, files |-> files])
    ELSE The({
        IF ~r.ok THEN r ELSE WriteEntriesFrom(m, Tail(keys), r.val.b, r.val.files) :
        r \in {SSTableFileBuilder_add(b, files, keys[1], m.map[keys[1]])}})

MemTable_write_entries_to_sstable(m, b, files) ==
    WriteEntriesFrom(m, SortedKeys(DOMAIN m.map), b, files)

\* one iteration of the loop of tryload_meta at pos: Ok([meta, pos]) or the
\* error of the read that failed; the buffers are allocated before the reads
ReadMeta(file, pos) ==
    The({
        IF ~sst_fname_len.ok THEN sst_fname_len
        ELSE The({
            IF ~sst_fname.ok THEN sst_fname
            ELSE The({
                IF ~sst_level.ok THEN sst_level
                ELSE The({
                    IF ~minkey.ok THEN minkey
                    ELSE The({
                        IF ~maxkey.ok THEN maxkey
                        ELSE Ok([meta |-> [filename |-> sst_fname.val.data,
                                           level |-> sst_level.val.data,
                                           min_key |-> minkey.val.data,
                                           max_key |-> maxkey.val.data],
                                 pos |-> maxkey.val.pos]) :
                        maxkey \in {ReadLenString(file, minkey.val.pos)}}) :
                    minkey \in {ReadLenString(file, sst_level.val.pos)}}) :
                sst_level \in {ReadU8(file, sst_fname.val.pos)}}) :
            sst_fname \in {ReadExact(file, sst_fname_len.val.pos,
                                     sst_fname_len.val.data)}}) :
        sst_fname_len \in {ReadU8(file, pos)}})

\* the loop of tryload_meta: n more entries from pos
RECURSIVE LoadMetas(_, _, _, _)
LoadMetas(file, pos, n, sstables) ==
    IF n = 0 THEN Ok(sstables)
    ELSE The({
        IF ~m.ok THEN m
        ELSE LoadMetas(file, m.val.pos, n - 1, Append(sstables, m.val.meta)) :
        m \in {ReadMeta(file, pos)}})

\* opens a metadata file that may not exist
LSMTree_tryload_meta_open(tree, files) ==
    IF META_FILENAME \notin DOMAIN files THEN Err("NotFound")
    ELSE The({
        IF ~num_sstables.ok THEN num_sstables
        ELSE The({
            IF ~loaded.ok THEN loaded ELSE Ok([tree EXCEPT !.sstables = loaded.val]) :
            loaded \in {LoadMetas(files[META_FILENAME], num_sstables.val.pos,
                                  num_sstables.val.data, tree.sstables)}}) :
        num_sstables \in {ReadU32(files[META_FILENAME], 0)}})

\* takes the metadata file to exist whenever the directory holds a file
LSMTree_tryload_meta_nonempty(tree, files) ==
    IF DOMAIN files = {} THEN Ok(tree) ELSE LSMTree_tryload_meta_open(tree, files)

\* Ok(tree) with the SSTable list read from the metadata file, or an error
LSMTree_tryload_meta(tree, files) ==
    IF META_FILENAME \notin DOMAIN files THEN Ok(tree)
    ELSE LSMTree_tryload_meta_open(tree, files)

\* LSMTree::new on a directory with these files: Ok(tree) or an error
LSMTree_new(files) ==
    LSMTree_tryload_meta(
        [memtable |-> MemTable_new, sstables |-> <<>>, total_flushed_size |-> 0], files)

\* the bytes of one SSTableMeta in the metadata file
MetaBytes(sstable) ==
    RCat(U32LE(RLen(sstable.filename)),
    RCat(sstable.filename,
    RCat(U8Byte(sstable.level),
    RCat(U32LE(RLen(sstable.min_key)),
    RCat(sstable.min_key,
    RCat(U32LE(RLen(sstable.max_key)), sstable.max_key))))))

RECURSIVE AllMetaBytes(_)
AllMetaBytes(sstables) ==
    IF sstables = <<>> THEN <<>>
    ELSE RCat(MetaBytes(sstables[1]), AllMetaBytes(Tail(sstables)))

\* the files after flush_metadata
LSMTree_flush_metadata(tree, files) ==
    FileAppend(FileCreate(files, META_FILENAME), META_FILENAME,
               RCat(U8Byte(Len(tree.sstables)), AllMetaBytes(tree.sstables)))

\* the steps of flush_memtable that do I/O
IOFaults == {"sst_create", "sst_write", "sst_commit", "meta_create", "meta_write"}

\* tree operations return [res, tree, files]; res is Ok, an error or a panic.
\* flush_memtable when the I/O step named by fault fails ("none": no step
\* fails): a failed File::create leaves the file as it was, a failed write
\* leaves what the earlier steps wrote
LSMTree_flush_memtable_io(tree, files, ufname, fault) ==
    The({
        IF ~minkey.ok \/ ~maxkey.ok
        THEN [res |-> Panic, tree |-> tree, files |-> files]
        ELSE IF fault = "sst_create"
        THEN [res |-> Err("io"), tree |-> tree, files |-> files]
        ELSE The({The({
            IF fault = "sst_write"
            THEN [res |-> Err("io"), tree |-> tree, files |-> sst_builder.files]
            ELSE The({
                IF fault = "sst_commit"
                THEN [res |-> Err("io"), tree |-> tree, files |-> written.files]
                ELSE The({The({
                    IF fault = "meta_create"
                    THEN [res |-> Err("io"), tree |-> pushed, files |-> committed.files]
                    ELSE IF fault = "meta_write"
                    THEN [res |-> Err("io"), tree |-> pushed,
                          files |-> FileCreate(committed.files, META_FILENAME)]
                    ELSE [res |-> Ok(TRUE),
                          tree |-> [pushed EXCEPT
                                       !.total_flushed_size = @ + tree.memtable.flush_size,
                                       !.memtable = MemTable_reset(tree.memtable)],
                          files |-> LSMTree_flush_metadata(pushed, committed.files)] :
                    pushed \in {[tree EXCEPT !.sstables = Append(@, new_sstable)]}}) :
                    committed \in {SSTableFileBuilder_commit(written.b, written.files).val}}) :
                written \in {MemTable_write_entries_to_sstable(
                                 tree.memtable, sst_builder.b, sst_builder.files).val}}) :
            sst_builder \in {SSTableFileBuilder_new(files, new_sstable.filename).val}}) :
            new_sstable \in {SSTableMeta_new(minkey.val, maxkey.val, ufname)}}) :
        minkey \in {MemTable_get_minkey(tree.memtable)},
        maxkey \in {MemTable_get_maxkey(tree.memtable)}})

\* flush_memtable when every I/O step succeeds
LSMTree_flush_memtable(tree, files, ufname) ==
    LSMTree_flush_memtable_io(tree, files, ufname, "none")

\* inserts the pair before the flush it triggers
LSMTree_set_insert_first(tree, files, key, val, ufname) ==
    IF MemTable_need_flush(tree.memtable, key, val)
    THEN LSMTree_flush_memtable(
             [tree EXCEPT !.memtable = MemTable_insert(@, key, val)], files, ufname)
    ELSE [res |-> Ok(TRUE),
          tree |-> [tree EXCEPT !.memtable = MemTable_insert(@, key, val)],
          files |-> files]

\* LSMTree::set when the I/O step named by fault fails in the flush it
\* triggers ("none": no step fails)
LSMTree_set_io(tree, files, key, val, ufname, fault) ==
    The({
        IF ~flushed.res.ok THEN flushed
        ELSE [res |-> Ok(TRUE),
              tree |-> [flushed.tree EXCEPT !.memtable = MemTable_insert(@, key, val)],
              files |-> flushed.files] :
        flushed \in {IF MemTable_need_flush(tree.memtable, key, val)
                     THEN LSMTree_flush_memtable_io(tree, files, ufname, fault)
                     ELSE [res |-> Ok(TRUE), tree |-> tree, files |-> files]}})

\* LSMTree::set when every I/O step succeeds
LSMTree_set(tree, files, key, val, ufname) ==
    LSMTree_set_io(tree, files, key, val, ufname, "none")

\* the loop of get over the SSTables from the i-th on
RECURSIVE GetFrom(_, _, _, _)
GetFrom(tree, files, key, i) ==
    IF i > Len(tree.sstables) THEN Ok(None)
    ELSE IF ~SSTableMeta_in_range(tree.sstables[i], key)
    THEN GetFrom(tree, files, key, i + 1)
    ELSE The({
        IF ~currsst.ok THEN currsst
        ELSE The({
            IF ~val.ok THEN val
            ELSE IF val.val.some THEN val
            ELSE GetFrom(tree, files, key, i + 1) :
            val \in {SSTableFileReader_get(files, currsst.val, key)}}) :
        currsst \in {SSTableFileReader_open(files, tree.sstables[i].filename)}})

LSMTree_get(tree, files, key) ==
    IF key \in DOMAIN tree.memtable.map
    THEN Ok(Some(tree.memtable.map[key]))
    ELSE GetFrom(tree, files, key, 1)

-----------------------------------------------------------------------------
(* The bit stream as a state machine: a writer is fed fields, closed, and   *)
(* the stream is read back with arbitrary read_bit / read(n) calls.         *)

MaxFields == 2

\* 0b101011 and -60 as u64 (tests read_write, read_write_i64)
IoValues == {ToU64(43), ToU64(-60)}

IoWidths == {0, 6, 7, 64}

NoStream == [n |-> 0, bitstream |-> <<>>]

NoCall == [op |-> "none", n |-> 0, c0 |-> 0, res |-> Ok(FALSE)]

BitInit ==
    /\ io_pc = "write"
    /\ bw = BitWriter_new
    /\ bs = NoStream
    /\ br = BitReader_new(NoStream)
    /\ io_log = <<>>
    /\ io_idx = 0
    /\ io_last = NoCall

BW_Write ==
    /\ io_pc = "write"
    /\ Len(io_log) < MaxFields
    /\ \E n \in IoWidths, v \in IoValues :
          LET r == BitWriter_write(bw, n, v)
          IN /\ r.ok
             /\ bw' = r.val
             /\ io_log' = Append(io_log, [op |-> "write", n |-> n, v |-> v])
    /\ UNCHANGED <<io_pc, bs, br, io_idx, io_last>>

BW_WriteBit ==
    /\ io_pc = "write"
    /\ Len(io_log) < MaxFields
    /\ \E b \in BOOLEAN :
          /\ bw' = BitWriter_write_bit(bw, b).val
          /\ io_log' = Append(io_log, [op |-> "write_bit", n |-> 1, v |-> b])
    /\ UNCHANGED <<io_pc, bs, br, io_idx, io_last>>

BW_Close ==
    /\ io_pc = "write"
    /\ bs' = BitWriter_close(bw)
    /\ br' = BitReader_new(bs')
    /\ io_pc' = "read"
    /\ UNCHANGED <<bw, io_log, io_idx, io_last>>

\* whether the next call (op, n) is the next logged field
InScript(op, n) ==
    /\ io_idx >= 0
    /\ io_idx < Len(io_log)
    /\ io_log[io_idx + 1].op = op
    /\ io_log[io_idx + 1].n = n

BR_ReadBit ==
    /\ io_pc = "read"
    /\ LET r == BitReader_read_bit(br)
       IN /\ br' = r[2]
          /\ io_last' = [op |-> "read_bit", n |-> 1, c0 |-> br.c, res |-> r[1]]
          /\ io_idx' = IF InScript("write_bit", 1) THEN io_idx + 1 ELSE -1
    /\ UNCHANGED <<io_pc, bw, bs, io_log>>

BR_Read ==
    /\ io_pc = "read"
    /\ \E n \in IoWidths :
          LET r == BitReader_read(br, n)
          IN /\ br' = r[2]
             /\ io_last' = [op |-> "read", n |-> n, c0 |-> br.c, res |-> r[1]]
             /\ io_idx' = IF InScript("write", n) THEN io_idx + 1 ELSE -1
    /\ UNCHANGED <<io_pc, bw, bs, io_log>>

-----------------------------------------------------------------------------
(* Properties of the bit stream *)

\* v & ((1 << n) - 1), and v itself for n = 64
MaskedValue(v, n) == Word([i \in 1..W |-> IF i <= n THEN v[i] ELSE 0])

\* C2: after any write / write_bit calls and close(), reading the fields back
\* in the same order with the same widths returns v & ((1<<n)-1) for each
\* write(n, v) (v itself when n = 64) and b for each write_bit(b).
C2_BitStreamRoundTrip ==
    (io_pc = "read" /\ io_idx > 0) =>
        LET f == io_log[io_idx]
        IN IF f.op = "write"
           THEN io_last.res = Ok(MaskedValue(f.v, f.n))
           ELSE io_last.res = Ok(f.v)

\* test read_write_i64 read back field by field: write(7, -60), write_bit(true)
C2_Witness ==
    /\ io_pc = "read"
    /\ io_idx = 2
    /\ io_log[1].op = "write" /\ io_log[1].n = 7 /\ io_log[1].v = ToU64(-60)
    /\ io_log[2].op = "write_bit" /\ io_log[2].v = TRUE
    /\ io_last.op = "read_bit"
    /\ io_last.res = Ok(TRUE)

\* C3: read_bit and read(n) fail with BitReaderError whenever the read would
\* move the cursor past bit_length, and the cursor never exceeds bit_length.
C3_ReadStopsAtBitLength ==
    io_pc = "read" =>
        /\ br.c <= br.n
        /\ (io_last.op # "none" /\ io_last.c0 + io_last.n > br.n)
               => io_last.res = Err("BitReaderError")


\* the bits the logged write and write_bit calls have asked for, in total
RECURSIVE LoggedBits(_)
LoggedBits(log) ==
    IF log = <<>> THEN 0 ELSE log[1].n + LoggedBits(Tail(log))

\* C39: the stream BitWriter::close returns records as its bit length the
\* total number of bits written by write and write_bit, its byte buffer has
\* ceil(bit_length / 8) bytes (none added when the length is a multiple of
\* 8), and every bit of the buffer after the bits written is 0.
C39_ClosePadsToByte ==
    io_pc = "read" =>
        /\ bs.n = LoggedBits(io_log)
        /\ Len(bs.bitstream) = (bs.n + 7) \div 8
        /\ (bs.n % 8 = 0) => (8 * Len(bs.bitstream) = bs.n)
        /\ \A pos \in bs.n..(8 * Len(bs.bitstream) - 1) : ByteBit(bs.bitstream, pos) = 0

\* closed after 7 bits and one bit: one byte without padding
C39_Witness ==
    /\ io_pc = "read"
    /\ io_idx = 0
    /\ Len(io_log) = 2
    /\ io_log[1].op = "write" /\ io_log[1].n = 7 /\ io_log[1].v = ToU64(43)
    /\ io_log[2].op = "write_bit"
    /\ bs.n = 8
    /\ Len(bs.bitstream) = 1
    /\ io_last.op = "none"
-----------------------------------------------------------------------------
(* The scalar codec as a state machine, following the protocol of the       *)
(* tests: with_vec, append_first, a run of append_time calls or a run of    *)
(* append_value calls or a run of append_entry calls, then from_writer,     *)
(* next(), and one get_next_time / get_next_value per appended item.        *)

MaxTimes == 2

MaxValues == 3

MaxEntries == 2

\* 12.0, 24.0, 15.0, -0.3 and 12.0 with its lowest mantissa bit set
F64_12 == U64Limbs(16424, 0, 0, 0)

F64_24 == U64Limbs(16440, 0, 0, 0)

F64_15 == U64Limbs(16430, 0, 0, 0)

F64_m0_3 == U64Limbs(49107, 13107, 13107, 13107)

F64_12ulp == U64Limbs(16424, 0, 0, 1)

GHeaders == {86400}

GFirstDeltas == {3000, -1}

\* first deltas at the ends of the accepted range; a block started with one
\* of them is read back right after append_first
GFirstEdges == {0, 16383, 16384, 16385}

\* deltas whose difference to the first delta 3000 hits every range boundary
DodSteps == {0, 63, -63, 64, -64, 65, 255, -255, 256, -256, 257,
             2047, -2047, 2048, -2048, 2049}

GDeltas == {0, 16384, -1, 16385} \cup {3000 + k : k \in DodSteps}

GValues == {F64_12, F64_24, F64_15, F64_m0_3, F64_12ulp}

GEntryDeltas == {3000, 3600, -1}

GEntryValues == {F64_12, F64_24}

NoReader ==
    [entry |-> [time |-> 0, value |-> F64_0],
     prev_entry |-> [time |-> 0, value |-> F64_0],
     prev_diff |-> 0,
     prev_zeros |-> InitZeros,
     reader |-> BitReader_new(NoStream)]

GCall(op, time, value, res) == [op |-> op, time |-> time, value |-> value, res |-> res]

ResultName(r) == IF r.ok THEN "Ok" ELSE r.err

\* the bits a call appended to the body
NewBits(w0, w1) ==
    SubSeq(w1.body.bitstream, Len(w0.body.bitstream) + 1, Len(w1.body.bitstream))

TimeItem(via, w0, w1, time) ==
    [op |-> "time", via |-> via, time |-> time,
     delta |-> time - w0.prev_ts, dod |-> (time - w0.prev_ts) - w0.prev_delta,
     value |-> F64_0, prev |-> F64_0, z0 |-> w0.prev_zeros, z1 |-> w1.prev_zeros,
     code |-> NewBits(w0, w1)]

ValueItem(via, w0, w1, value) ==
    [op |-> "value", via |-> via, time |-> 0, delta |-> 0, dod |-> 0,
     value |-> value, prev |-> w0.prev_value, z0 |-> w0.prev_zeros, z1 |-> w1.prev_zeros,
     code |-> NewBits(w0, w1)]

OnlyVia(via) == \A i \in 1..Len(g_log) : g_log[i].via = via

ScalarInit ==
    /\ g_pc = "new"
    /\ gw \in {GorillaWriter_with_vec(h) : h \in GHeaders}
    /\ gr = NoReader
    /\ g_log = <<>>
    /\ g_out = <<>>
    /\ g_last = GCall("with_vec", 0, F64_0, "Ok")

G_AppendFirst ==
    /\ g_pc = "new"
    /\ \E d \in GFirstDeltas \cup GFirstEdges :
          LET entry == [time |-> gw.header + d, value |-> F64_12]
              r == GorillaWriter_append_first(gw, entry)
          IN /\ g_last' = GCall("append_first", entry.time, entry.value, ResultName(r))
             /\ gw' = IF r.ok THEN r.val ELSE gw
             /\ g_pc' = IF ~r.ok THEN "new"
                        ELSE IF d \in GFirstEdges THEN "first" ELSE "append"
    /\ UNCHANGED <<gr, g_log, g_out>>

G_AppendTime ==
    /\ g_pc = "append"
    /\ OnlyVia("time")
    /\ Len(g_log) < MaxTimes
    /\ \E d \in GDeltas :
          LET time == gw.prev_ts + d
              r == GorillaWriter_append_time(gw, time)
          IN /\ g_last' = GCall("append_time", time, F64_0, ResultName(r))
             /\ gw' = IF r.ok THEN r.val ELSE gw
             /\ g_log' = IF r.ok THEN Append(g_log, TimeItem("time", gw, r.val, time))
                         ELSE g_log
    /\ UNCHANGED <<g_pc, gr, g_out>>

G_AppendValue ==
    /\ g_pc = "append"
    /\ OnlyVia("value")
    /\ Len(g_log) < MaxValues
    /\ \E v \in GValues :
          LET r == GorillaWriter_append_value(gw, v)
          IN /\ g_last' = GCall("append_value", 0, v, ResultName(r))
             /\ gw' = IF r.ok THEN r.val ELSE gw
             /\ g_log' = IF r.ok THEN Append(g_log, ValueItem("value", gw, r.val, v))
                         ELSE g_log
             /\ g_pc' = IF ~r.ok /\ r.err = "panic" THEN "panic" ELSE g_pc
    /\ UNCHANGED <<gr, g_out>>

G_AppendEntry ==
    /\ g_pc = "append"
    /\ OnlyVia("entry")
    /\ Len(g_log) < 2 * MaxEntries
    /\ \E d \in GEntryDeltas, v \in GEntryValues :
          LET time == gw.prev_ts + d
              t == GorillaWriter_append_time(gw, time)
              r == GorillaWriter_append_entry(gw, [time |-> time, value |-> v])
          IN /\ g_last' = GCall("append_entry", time, v, ResultName(r))
             /\ gw' = IF r.ok THEN r.val ELSE IF t.ok THEN t.val ELSE gw
             /\ g_log' = IF r.ok
                         THEN g_log \o <<TimeItem("entry", gw, t.val, time),
                                         ValueItem("entry", t.val, r.val, v)>>
                         ELSE g_log
             /\ g_pc' = IF ~r.ok /\ r.err = "panic" THEN "panic" ELSE g_pc
    /\ UNCHANGED <<gr, g_out>>

G_FromWriter ==
    /\ g_pc \in {"append", "first"}
    /\ LET r == GorillaReader_from_writer(gw)
       IN /\ gr' = IF r.res.ok THEN r.rd ELSE gr
          /\ g_pc' = IF r.res.ok THEN "reader" ELSE "panic"
          /\ g_last' = GCall("from_writer", 0, F64_0, ResultName(r.res))
    /\ UNCHANGED <<gw, g_log, g_out>>

G_Next ==
    /\ g_pc = "reader"
    /\ LET r == GorillaReader_next(gr)
       IN /\ gr' = r.rd
          /\ g_out' = <<[op |-> "first", time |-> r.res.val.time, value |-> r.res.val.value]>>
          /\ g_last' = GCall("next", r.res.val.time, r.res.val.value, "Ok")
    /\ g_pc' = "read"
    /\ UNCHANGED <<gw, g_log>>

\* the logged item the next reader call is for
NextItem == g_log[Len(g_out)]

G_GetNextTime ==
    /\ g_pc = "read"
    /\ Len(g_out) <= Len(g_log)
    /\ NextItem.op = "time"
    /\ LET r == GorillaReader_get_next_time(gr)
       IN /\ gr' = r.rd
          /\ g_pc' = IF r.res.ok THEN "read" ELSE "panic"
          /\ g_out' = IF r.res.ok
                      THEN Append(g_out, [op |-> "time", time |-> r.res.val, value |-> F64_0])
                      ELSE g_out
          /\ g_last' = GCall("get_next_time", IF r.res.ok THEN r.res.val ELSE 0, F64_0,
                             ResultName(r.res))
    /\ UNCHANGED <<gw, g_log>>

G_GetNextValue ==
    /\ g_pc = "read"
    /\ Len(g_out) <= Len(g_log)
    /\ NextItem.op = "value"
    /\ LET r == GorillaReader_get_next_value(gr)
       IN /\ gr' = r.rd
          /\ g_pc' = IF r.res.ok THEN "read" ELSE "panic"
          /\ g_out' = IF r.res.ok
                      THEN Append(g_out, [op |-> "value", time |-> 0, value |-> r.res.val])
                      ELSE g_out
          /\ g_last' = GCall("get_next_value", 0, IF r.res.ok THEN r.res.val ELSE F64_0,
                             ResultName(r.res))
    /\ UNCHANGED <<gw, g_log>>

-----------------------------------------------------------------------------
(* Properties of the scalar codec *)

\* the low n bits of the two's complement of d, least significant first
\* (|d| < 2^30)
TwosBits(d, n) ==
    Tuple([i \in 1..n |-> IF i <= 30 THEN ((d % Pow2(30)) \div Pow2(i - 1)) % 2
                          ELSE IF d < 0 THEN 1 ELSE 0])

\* the table of timestamp codes
ExpectedTimeCode(dod) ==
    IF dod = 0 THEN <<0>>
    ELSE IF dod \in -63..64 THEN <<1, 0>> \o TwosBits(dod, 7)
    ELSE IF dod \in -255..256 THEN <<1, 1, 0>> \o TwosBits(dod, 9)
    ELSE IF dod \in -2047..2048 THEN <<1, 1, 1, 0>> \o TwosBits(dod, 12)
    ELSE <<1, 1, 1, 1>> \o TwosBits(dod, 32)

\* the index in g_log of the item the last reader call decoded
LastRead == Len(g_out) - 1

\* C4: append_time writes each delta-of-delta with the prefix and width of its
\* asymmetric range, get_next_time decodes exactly the encoded delta-of-delta
\* (the reader's delta follows the writer's), and the timestamp appended right
\* after the first sample is returned exactly.
C4_TimeCodeRoundTrip ==
    /\ \A i \in 1..Len(g_log) :
          g_log[i].op = "time" => g_log[i].code = ExpectedTimeCode(g_log[i].dod)
    /\ g_last.op = "get_next_time" => g_last.res = "Ok"
    /\ (g_pc = "read" /\ LastRead >= 1 /\ g_log[LastRead].op = "time")
          => gr.prev_diff = g_log[LastRead].delta
    /\ (g_pc = "read" /\ LastRead >= 1 /\ g_log[1].op = "time")
          => g_out[2].time = g_log[1].time

\* delta-of-delta +64 then -64, both decoded
C4_Witness ==
    /\ g_pc = "read"
    /\ Len(g_log) = 2
    /\ LastRead = 2
    /\ g_log[1].dod = 64
    /\ g_log[1].code = <<1, 0, 0, 0, 0, 0, 0, 0, 1>>
    /\ g_log[2].dod = -64
    /\ gr.prev_diff = 3000

\* the number k in n bits, least significant first
NatBits(k, n) == Tuple([i \in 1..n |-> (k \div Pow2(i - 1)) % 2])

\* C5: in append_value a zero XOR writes '0' and keeps the window; a non-zero
\* XOR inside the window writes '10' and 64 - prev_lead - prev_trail payload
\* bits and keeps the window; a non-zero XOR outside it writes '11', the 5-bit
\* leading field, the 6-bit nbits field and nbits payload bits, and sets the
\* window to (leading, trailing).
C5_ValueCodeAndWindow ==
    \A i \in 1..Len(g_log) :
        g_log[i].op = "value" =>
            LET it == g_log[i]
                x == BitXor(it.value, it.prev)
                lz == leading_zeros(x)
                tz == trailing_zeros(x)
                inside == lz >= it.z0.leading /\ tz >= it.z0.trailing
            IN IF x = ZeroU64
               THEN it.code = <<0>> /\ it.z1 = it.z0
               ELSE IF inside
               THEN /\ it.code = <<1, 0>> \o SubSeq(x, it.z0.trailing + 1, W - it.z0.leading)
                    /\ Len(it.code) = 2 + (64 - it.z0.leading - it.z0.trailing)
                    /\ it.z1 = it.z0
               ELSE /\ it.code = <<1, 1>> \o NatBits(lz % 32, 5)
                                     \o NatBits((64 - lz - tz) % 64, 6)
                                     \o SubSeq(x, tz + 1, W - lz)
                    /\ it.z1 = [leading |-> lz, trailing |-> tz]

\* test append_value: after the first value 12.0, the values 24.0, 15.0, 12.0
C5_Witness ==
    /\ Len(g_log) = 3
    /\ g_log[1].value = F64_24 /\ g_log[1].prev = F64_12
    /\ g_log[1].code = <<1, 1>> \o NatBits(11, 5) \o NatBits(1, 6) \o NatBits(1, 1)
    /\ g_log[2].value = F64_15
    /\ g_log[2].code = <<1, 1>> \o NatBits(11, 5) \o NatBits(4, 6) \o NatBits(11, 4)
    /\ g_log[3].value = F64_12
    /\ g_log[3].code = <<1, 0>> \o NatBits(3, 4)
    /\ g_log[3].z1 = g_log[2].z1


\* C29: after every decoded value the window (leading, trailing) of the
\* reader equals the window the writer had after it appended that value, for
\* every sequence of values, the XORs with 32 or more leading zeros and the
\* XORs with no leading and no trailing zero included.
C29_ReaderWindowFollowsWriter ==
    (g_pc = "read" /\ Len(g_out) > 1 /\ g_log[Len(g_out) - 1].op = "value")
        => gr.prev_zeros = g_log[Len(g_out) - 1].z1

\* C30: every get_next_time call leaves the timestamp state of the reader at
\* the timestamp it returns, also when the delta of deltas is zero: the calls
\* return the appended timestamps one after another.
C30_TimeStateAdvances ==
    g_pc = "read"
        => /\ \A k \in 2..Len(g_out) :
                 g_out[k].op = "time" => g_out[k].time = g_log[k - 1].time
           /\ g_last.op = "get_next_time" => gr.prev_entry.time = g_last.time

\* C31: for a block built with append_first and append_value calls, next()
\* returns the first value and each get_next_value call returns the next
\* appended value, bit for bit and in order.
C31_ValuesRoundTrip ==
    (g_pc \in {"read", "panic"} /\ OnlyVia("value"))
        => /\ g_pc = "read"
           /\ \A k \in 1..Len(g_out) :
                 IF k = 1 THEN g_out[k].value = F64_12
                 ELSE g_out[k].value = g_log[k - 1].value


\* C32: append_first accepts exactly the first deltas 0..16384 (a negative one
\* is an AppendOrderError, one above 16384 an AppendDurationError), and for
\* every accepted delta the reader made by from_writer returns
\* header_time + first_delta as the first timestamp.
C32_FirstDeltaRoundTrip ==
    /\ g_last.op = "append_first" =>
          g_last.res = (IF g_last.time - gw.header < 0 THEN "AppendOrderError"
                        ELSE IF g_last.time - gw.header > 16384 THEN "AppendDurationError"
                        ELSE "Ok")
    /\ (g_pc = "read" /\ Len(g_log) = 0 /\ Len(g_out) = 1)
          => g_out[1].time = gw.prev_ts

\* the scalar writer: append_entry is append_time, whose only error comes
\* from validate_timestamp before anything is stored, then append_value,
\* which returns no error; a failed call leaves the writer as it was
ScalarAppendEntryFrame ==
    [][(g_last'.op = "append_entry" /\ g_last'.res \in {"AppendOrderError", "AppendDurationError"}
          /\ g_last' # g_last)
          => gw' = gw]_vars
-----------------------------------------------------------------------------
(* The vector writer as a state machine: a client appends entries to a      *)
(* GorillaWriterMV and sees each result.                                    *)

\* number of append_entry calls
MaxAppends == 2

MVHeader == 24 * 3600

MVDims == {1, 2}

\* time - prev_ts of the entries appended
MVDeltas == {0, 60, 16384, 16385, -1}

\* the value vectors appended, of 1, 2 and 3 components
MVValueVecs ==
    {<<F64_12>>, <<F64_m0_3>>, <<F64_12, F64_24>>, <<F64_24, F64_m0_3>>,
     <<F64_12, F64_24, F64_15>>}

MVInit ==
    /\ mv_w \in {GorillaWriterMV_with_vec(MVHeader, dim) : dim \in MVDims}
    /\ mv_calls = 0
    /\ mv_last = [op |-> "none", prev_ts |-> 0, n0 |-> 0,
                  entry |-> [time |-> 0, values |-> <<>>], res |-> "Ok"]

MV_AppendEntry ==
    /\ mv_calls < MaxAppends
    /\ \E delta \in MVDeltas, values \in MVValueVecs :
          LET entry == [time |-> mv_w.prev_ts + delta, values |-> values]
              r == GorillaWriterMV_append_entry(mv_w, entry)
          IN /\ mv_w' = GorillaWriterMV_append_entry_self(mv_w, entry)
             /\ mv_last' = [op |-> "append_entry", prev_ts |-> mv_w.prev_ts,
                            n0 |-> mv_w.body.n, entry |-> entry,
                            res |-> ResultName(r)]
    /\ mv_calls' = mv_calls + 1

-----------------------------------------------------------------------------
(* Properties of the vector writer *)

\* C6: append_entry fails with BadDimensionError when values.len() != D,
\* otherwise with AppendOrderError when the time is earlier than the previous
\* one, otherwise with AppendDurationError when time - prev_ts > 16384; in
\* every other case, a delta of 0 and of 16384 included, it succeeds and the
\* entry's time becomes the previous time.
C6_AppendEntryErrors ==
    mv_last.op = "append_entry" =>
        LET delta == mv_last.entry.time - mv_last.prev_ts
        IN IF Len(mv_last.entry.values) # mv_w.dim
           THEN mv_last.res = "BadDimensionError"
           ELSE IF delta < 0 THEN mv_last.res = "AppendOrderError"
           ELSE IF delta > 16384 THEN mv_last.res = "AppendDurationError"
           ELSE /\ mv_last.res = "Ok"
                /\ mv_w.prev_ts = mv_last.entry.time
                /\ mv_w.body.n > mv_last.n0

\* a second entry exactly 16384 seconds after an entry with delta 0
C6_Witness ==
    /\ mv_calls = 2
    /\ mv_last.res = "Ok"
    /\ mv_last.entry.time - mv_last.prev_ts = 16384
    /\ mv_last.prev_ts = MVHeader
    /\ mv_w.dim = 2

\* the errors append_entry returns
AppendErrors == {"BadDimensionError", "AppendOrderError", "AppendDurationError"}

-----------------------------------------------------------------------------
(* compress_values and retrieve_values applied to a sequence of entries *)

\* entries of the sequence
MaxSamples == 3

ApiHeader == 24 * 3600

ApiTimes == {ApiHeader + 10, ApiHeader + 20, ApiHeader + 30}

ApiValueVecs(dim) ==
    IF dim = 1 THEN {<<F64_12>>, <<F64_12ulp>>, <<F64_m0_3>>}
    ELSE {<<F64_12, F64_24>>, <<F64_15, F64_12>>}

ApiEntries(dim) == {[time |-> t, values |-> v] : t \in ApiTimes, v \in ApiValueVecs(dim)}

SeqsUpTo(S, n) == UNION {[1..k -> S] : k \in 0..n}

ApiInit ==
    /\ api_pc = "start"
    /\ api_dim \in MVDims
    /\ api_entries \in SeqsUpTo(ApiEntries(api_dim), MaxSamples)
    /\ api_block = NoStream
    /\ api_result = <<>>

API_compress_values ==
    /\ api_pc = "start"
    /\ LET r == compress_values(api_entries, ApiHeader, api_dim)
       IN IF r.ok
          THEN api_block' = r.val /\ api_pc' = "compressed"
          ELSE api_block' = api_block /\ api_pc' = "compress_panic"
    /\ UNCHANGED <<api_dim, api_entries, api_result>>

API_retrieve_values ==
    /\ api_pc = "compressed"
    /\ LET r == retrieve_values(api_block, api_dim, Len(api_entries))
       IN IF r.ok
          THEN api_result' = r.val /\ api_pc' = "retrieved"
          ELSE api_result' = api_result /\ api_pc' = "retrieve_panic"
    /\ UNCHANGED <<api_dim, api_entries, api_block>>

\* retrieve_values asked for one entry more than the block holds; the
\* function returns a Vec, so it ends with entries or with a panic
API_retrieve_more ==
    /\ api_pc = "compressed"
    /\ LET r == retrieve_values(api_block, api_dim, Len(api_entries) + 1)
       IN IF r.ok
          THEN api_result' = r.val /\ api_pc' = "over_retrieved"
          ELSE /\ api_result' = api_result
               /\ api_pc' = IF r.err = "panic" THEN "over_panic" ELSE "over_error"
    /\ UNCHANGED <<api_dim, api_entries, api_block>>

-----------------------------------------------------------------------------
(* Properties of compress_values / retrieve_values *)

\* the precondition of the round trip
ValidSamples(S, header, dim) ==
    /\ \A i \in 1..Len(S) : Len(S[i].values) = dim
    /\ Len(S) > 0 => S[1].time >= header /\ S[1].time - header <= 16384
    /\ \A i \in 1..(Len(S) - 1) :
          S[i + 1].time >= S[i].time /\ S[i + 1].time - S[i].time <= 16384

\* C1: for every valid sequence S of D-dimensional samples,
\* retrieve_values(compress_values(S, header, D), D, len(S)) returns exactly
\* S: the same timestamps and bit-identical values, in order.
C1_CodecRoundTrip ==
    (ValidSamples(api_entries, ApiHeader, api_dim) /\ api_pc # "start") =>
        /\ api_pc \in {"compressed", "retrieved"}
        /\ api_pc = "retrieved" => api_result = api_entries


\* C24: retrieve_values asked for more entries than were encoded reports the
\* overflow of the bit reader as an error value, and returns no entry that
\* was not encoded.
C24_OverreadIsError ==
    api_pc \in {"over_retrieved", "over_panic", "over_error"}
        => /\ api_pc = "over_error"
           /\ Len(api_result) <= Len(api_entries)


\* the block of a writer whose first call is append_first(mv_entries[1]) and
\* whose later calls are append_entry, closed
BlockWithFirst(mv_entries, header, dim) ==
    The({IF ~f.ok THEN f
         ELSE The({IF ~w.ok THEN w ELSE Ok(GorillaWriterMV_close(w.val)) :
                   w \in {CompressFrom(f.val, mv_entries, 2)}}) :
         f \in {GorillaWriterMV_append_first(GorillaWriterMV_with_vec(header, dim),
                                             mv_entries[1])}})

\* C33: the block compress_values returns for a non-empty sequence is the
\* 64-bit header, the first sample as append_first writes it (first delta in
\* 14 bits, then the D values in 64 bits each), and every later sample as one
\* timestamp code and D value codes.
C33_BlockStartsWithAppendFirst ==
    (api_pc = "compressed" /\ Len(api_entries) >= 1)
        => /\ BlockWithFirst(api_entries, ApiHeader, api_dim).ok
           /\ api_block = BlockWithFirst(api_entries, ApiHeader, api_dim).val
           /\ api_block.n >= 64 + 14 + 64 * api_dim

\* the entries with the values of dimension i alone
Column(mv_entries, i) ==
    [k \in 1..Len(mv_entries) |->
        [time |-> mv_entries[k].time, values |-> <<mv_entries[k].values[i]>>]]

\* time - prev_ts of entry k
DeltaAt(mv_entries, k) ==
    IF k = 0 THEN 0
    ELSE mv_entries[k].time - (IF k = 1 THEN ApiHeader ELSE mv_entries[k - 1].time)

\* the timestamp code of entry k
TimeBitsAt(mv_entries, k) ==
    WriteAll(BitWriter_new,
             TimeCode(DeltaAt(mv_entries, k) - DeltaAt(mv_entries, k - 1))).val.bitstream

\* one writer of dimension 1 per column
ColumnWriters(dim) == [i \in 1..dim |-> GorillaWriterMV_with_vec(ApiHeader, 1)]

\* the writers of the columns after each has appended its part of the entry
ColumnsAppend(ws, entry) ==
    [i \in DOMAIN ws |->
        GorillaWriterMV_append_entry(ws[i], [time |-> entry.time,
                                             values |-> <<entry.values[i]>>]).val]

\* the value codes the columns i.. have appended after a timestamp code of
\* tlen bits, in index order
RECURSIVE ValueBitsFrom(_, _, _, _)
ValueBitsFrom(ws, nx, tlen, i) ==
    IF i > Len(ws) THEN <<>>
    ELSE SubSeq(nx[i].body.bitstream, Len(ws[i].body.bitstream) + tlen + 1,
                Len(nx[i].body.bitstream))
            \o ValueBitsFrom(ws, nx, tlen, i + 1)

\* per entry k.. one timestamp code and the value codes of the columns
RECURSIVE LayoutFrom(_, _, _)
LayoutFrom(mv_entries, k, ws) ==
    IF k > Len(mv_entries) THEN <<>>
    ELSE The({TimeBitsAt(mv_entries, k)
                 \o ValueBitsFrom(ws, nx, Len(TimeBitsAt(mv_entries, k)), 1)
                 \o LayoutFrom(mv_entries, k + 1, nx) :
              nx \in {ColumnsAppend(ws, mv_entries[k])}})

ExpectedLayout(mv_entries, dim) ==
    SubSeq(ToU64(ApiHeader), 1, 64) \o LayoutFrom(mv_entries, 1, ColumnWriters(dim))

\* C35: in the vector codec the code and the decoded value of dimension i
\* depend on the values of dimension i alone (its previous value and its
\* window), and each sample is one timestamp code followed by the D value
\* codes in index order: the block of a sequence is the header, then per
\* sample the timestamp code and the codes the columns have on their own, and
\* retrieve_values returns in dimension i what it returns for column i.
C35_DimensionsIndependent ==
    /\ (api_pc \in {"compressed", "retrieved"})
          => \A bits \in {ExpectedLayout(api_entries, api_dim)} :
                api_block = BitWriter_close([n |-> Len(bits), bitstream |-> bits])
    /\ (api_pc = "retrieved")
          => \A i \in 1..api_dim :
                /\ compress_values(Column(api_entries, i), ApiHeader, 1).ok
                /\ \A c \in {retrieve_values(
                                 compress_values(Column(api_entries, i), ApiHeader, 1).val,
                                 1, Len(api_entries))} :
                      /\ c.ok
                      /\ \A k \in 1..Len(api_entries) :
                            /\ api_result[k].time = c.val[k].time
                            /\ api_result[k].values[i] = c.val[k].values[1]

\* three samples of dimension 2 retrieved; after the second sample the
\* windows of the two dimensions differ
C35_Witness ==
    /\ api_pc = "retrieved"
    /\ api_dim = 2
    /\ Len(api_entries) = 3
    /\ api_entries[1].values = <<F64_12, F64_24>>
    /\ api_entries[2].values = <<F64_15, F64_12>>
    /\ api_entries[3].values = <<F64_12, F64_24>>
    /\ Len(api_result) = 3
-----------------------------------------------------------------------------
(* SSTable files as a state machine: a client builds files one after the    *)
(* other (add, merge_file, commit), then opens one and reads it.            *)

\* add and merge_file calls over all builders
MaxOps == 4

StrAB == FromBytes(<<97, 98>>)

StrB == FromBytes(<<98>>)

StrXYY == FromBytes(<<120, 121, 121>>)

\* the files built, in this order
SSTPaths == <<FromBytes(<<102, 49>>), FromBytes(<<102, 50>>), FromBytes(<<102, 51>>)>>

\* the pairs added
SSTPairs == {<<StrB, StrXYY>>, <<StrAB, <<>>>>}

\* the keys looked up
SSTKeys == {StrAB, StrB, FromBytes(<<97>>)}

SSTNoCall == [op |-> "none", arg |-> <<>>, res |-> Ok(None)]

SSTInit ==
    /\ sst_pc = "build"
    /\ sst_files = EmptyMap
    /\ sst_b = None
    /\ sst_log = EmptyMap
    /\ sst_done = {}
    /\ sst_ops = 0
    /\ sst_r = None
    /\ sst_it = None
    /\ sst_out = <<>>
    /\ sst_last = SSTNoCall

sstReadVars == <<sst_r, sst_it, sst_out>>

\* SSTableFileBuilder::new on the next path
SST_New ==
    /\ sst_pc = "build"
    /\ ~sst_b.some
    /\ Cardinality(DOMAIN sst_files) < Len(SSTPaths)
    /\ LET path == SSTPaths[Cardinality(DOMAIN sst_files) + 1]
           r == SSTableFileBuilder_new(sst_files, path)
       IN /\ sst_b' = Some(r.val.b)
          /\ sst_files' = r.val.files
          /\ sst_log' = MapInsert(sst_log, path, <<>>)
          /\ sst_last' = [op |-> "new", arg |-> path, res |-> Ok(None)]
    /\ UNCHANGED <<sst_pc, sst_done, sst_ops, sstReadVars>>

SST_Add ==
    /\ sst_pc = "build"
    /\ sst_b.some
    /\ sst_ops < MaxOps
    /\ \E kv \in SSTPairs :
          LET r == SSTableFileBuilder_add(sst_b.val, sst_files, kv[1], kv[2])
              path == sst_b.val.writer.path
          IN /\ sst_b' = Some(r.val.b)
             /\ sst_files' = r.val.files
             /\ sst_log' = [sst_log EXCEPT ![path] =
                               Append(@, [op |-> "add", key |-> kv[1], val |-> kv[2]])]
             /\ sst_last' = [op |-> "add", arg |-> kv[1], res |-> Ok(None)]
    /\ sst_ops' = sst_ops + 1
    /\ UNCHANGED <<sst_pc, sst_done, sstReadVars>>

SST_MergeFile ==
    /\ sst_pc = "build"
    /\ sst_b.some
    /\ sst_ops < MaxOps
    /\ \E path \in sst_done :
          LET r == SSTableFileBuilder_merge_file(sst_b.val, sst_files, path)
              mine == sst_b.val.writer.path
          IN /\ sst_b' = IF r.ok THEN Some(r.val.b) ELSE sst_b
             /\ sst_files' = IF r.ok THEN r.val.files ELSE sst_files
             /\ sst_log' = IF r.ok
                           THEN [sst_log EXCEPT ![mine] =
                                    Append(@, [op |-> "merge", path |-> path])]
                           ELSE sst_log
             /\ sst_last' = [op |-> "merge_file", arg |-> path,
                             res |-> IF r.ok THEN Ok(None) ELSE r]
    /\ sst_ops' = sst_ops + 1
    /\ UNCHANGED <<sst_pc, sst_done, sstReadVars>>

\* commit, after which the builder is dropped
SST_Commit ==
    /\ sst_pc = "build"
    /\ sst_b.some
    /\ LET r == SSTableFileBuilder_commit(sst_b.val, sst_files)
       IN /\ sst_files' = r.val.files
          /\ sst_done' = sst_done \cup {sst_b.val.writer.path}
          /\ sst_last' = [op |-> "commit", arg |-> sst_b.val.writer.path, res |-> Ok(None)]
    /\ sst_b' = None
    /\ UNCHANGED <<sst_pc, sst_log, sst_ops, sstReadVars>>

\* SSTableFileReader::open on the file committed last, once no builder is left
SST_Open ==
    /\ sst_pc = "build"
    /\ ~sst_b.some
    /\ sst_done # {}
    /\ LET path == SSTPaths[Cardinality(sst_done)]
           r == SSTableFileReader_open(sst_files, path)
       IN /\ sst_r' = IF r.ok THEN Some(r.val) ELSE None
          /\ sst_last' = [op |-> "open", arg |-> path,
                          res |-> IF r.ok THEN Ok(None) ELSE r]
    /\ sst_pc' = "read"
    /\ sst_it' = None
    /\ sst_out' = <<>>
    /\ UNCHANGED <<sst_files, sst_b, sst_log, sst_done, sst_ops>>

\* get borrows the reader mutably: there is no iterator on it
SST_Get ==
    /\ sst_r.some
    /\ ~sst_it.some
    /\ \E key \in SSTKeys :
          sst_last' = [op |-> "get", arg |-> key,
                       res |-> SSTableFileReader_get(sst_files, sst_r.val, key)]
    /\ UNCHANGED <<sst_pc, sst_files, sst_b, sst_log, sst_done, sst_ops, sstReadVars>>

SST_Iter ==
    /\ sst_r.some
    /\ LET it == SSTableFileReader_iter(sst_files, sst_r.val)
       IN /\ sst_it' = IF it.ok THEN Some(it.val) ELSE None
          /\ sst_last' = [op |-> "iter", arg |-> sst_r.val.path,
                          res |-> IF it.ok THEN Ok(None) ELSE it]
    /\ sst_out' = <<>>
    /\ UNCHANGED <<sst_pc, sst_files, sst_b, sst_log, sst_done, sst_ops, sst_r>>

\* Iterator::next; after a failed read the reader is left anywhere between
\* the position it had and the end of the file
SST_IterNext ==
    /\ sst_r.some
    /\ sst_it.some
    /\ LET nx == SSTableFileIter_next(sst_files, sst_r.val, sst_it.val)
       IN /\ IF nx.failed
             THEN \E pos \in sst_it.val.pos..RLen(sst_files[sst_r.val.path]) :
                     sst_it' = Some([nx.it EXCEPT !.pos = pos])
             ELSE sst_it' = Some(nx.it)
          /\ sst_out' = IF nx.item.some THEN Append(sst_out, nx.item.val) ELSE sst_out
          /\ sst_last' = [op |-> "next", arg |-> sst_r.val.path, res |-> Ok(nx.item)]
    /\ UNCHANGED <<sst_pc, sst_files, sst_b, sst_log, sst_done, sst_ops, sst_r>>

-----------------------------------------------------------------------------
(* Properties of SSTable files *)

\* the pairs a file was given, its merge_file calls replaced by the pairs of
\* the merged file
RECURSIVE FedPairs(_, _)
FedPairs(log, ops) ==
    IF ops = <<>> THEN <<>>
    ELSE (IF ops[1].op = "add" THEN <<<<ops[1].key, ops[1].val>>>>
          ELSE FedPairs(log, log[ops[1].path]))
         \o FedPairs(log, Tail(ops))

DistinctKeys(pairs) ==
    \A i, j \in 1..Len(pairs) : pairs[i][1] = pairs[j][1] => i = j

\* the file the reader is open on was committed
ReadingCommitted == sst_r.some /\ sst_r.val.path \in sst_done

ReadPairs == FedPairs(sst_log, sst_log[sst_r.val.path])

\* C7: on a committed file whose pairs have distinct keys, get(k_i) is
\* Some(v_i) for every pair added and None for every other key.
C7_GetAfterCommit ==
    (ReadingCommitted /\ sst_last.op = "get" /\ DistinctKeys(ReadPairs)) =>
        IF \E i \in 1..Len(ReadPairs) : ReadPairs[i][1] = sst_last.arg
        THEN \E i \in 1..Len(ReadPairs) :
                /\ ReadPairs[i][1] = sst_last.arg
                /\ sst_last.res = Ok(Some(ReadPairs[i][2]))
        ELSE sst_last.res = Ok(None)

\* the second of two pairs is found
C7_Witness ==
    /\ ReadingCommitted
    /\ sst_log[sst_r.val.path] = <<[op |-> "add", key |-> StrB, val |-> StrXYY],
                                   [op |-> "add", key |-> StrAB, val |-> <<>>]>>
    /\ sst_last.op = "get"
    /\ sst_last.arg = StrAB
    /\ sst_last.res = Ok(Some(<<>>))

OnlyAdds(ops) == \A i \in 1..Len(ops) : ops[i].op = "add"

\* C8: iterating a committed file yields exactly the pairs added to its
\* builder, in the order added, and ends after num_entries items.
C8_IterationOrder ==
    (ReadingCommitted /\ sst_it.some /\ OnlyAdds(sst_log[sst_r.val.path])) =>
        /\ Len(sst_out) <= Len(ReadPairs)
        /\ sst_out = SubSeq(ReadPairs, 1, Len(sst_out))
        /\ sst_it.val.curr_entry = Len(sst_out)
        /\ sst_last.op = "next" =>
              IF sst_last.res.val.some
              THEN sst_last.res.val.val = sst_out[Len(sst_out)]
              ELSE sst_out = ReadPairs /\ Len(sst_out) = sst_r.val.num_entries

\* two pairs added in descending key order, iterated to the end
C8_Witness ==
    /\ ReadingCommitted
    /\ sst_it.some
    /\ sst_log[sst_r.val.path] = <<[op |-> "add", key |-> StrB, val |-> StrXYY],
                                   [op |-> "add", key |-> StrAB, val |-> <<>>]>>
    /\ sst_out = <<<<StrB, StrXYY>>, <<StrAB, <<>>>>>>
    /\ sst_last.op = "next"
    /\ ~sst_last.res.val.some

\* what iterating the file at path yields
RECURSIVE IterFrom(_, _, _)
IterFrom(files, reader, it) ==
    LET nx == SSTableFileIter_next(files, reader, it)
    IN IF ~nx.item.some THEN <<>>
       ELSE <<nx.item.val>> \o IterFrom(files, reader, nx.it)

IterAll(files, path) ==
    LET reader == SSTableFileReader_open(files, path).val
    IN IterFrom(files, reader, SSTableFileReader_iter(files, reader).val)

RECURSIVE ConcatIter(_, _)
ConcatIter(files, ops) ==
    IF ops = <<>> THEN <<>>
    ELSE IterAll(files, ops[1].path) \o ConcatIter(files, Tail(ops))

OnlyMerges(ops) == \A i \in 1..Len(ops) : ops[i].op = "merge"

\* C9: when committed files F1..Fn are merged into a fresh builder in that
\* order and the builder is committed, iterating the new file yields the
\* entries of F1..Fn concatenated, each in its own iteration order.
C9_MergeConcatenates ==
    (ReadingCommitted /\ sst_it.some /\ OnlyMerges(sst_log[sst_r.val.path])) =>
        LET all == ConcatIter(sst_files, sst_log[sst_r.val.path])
        IN /\ Len(sst_out) <= Len(all)
           /\ sst_out = SubSeq(all, 1, Len(sst_out))
           /\ (sst_last.op = "next" /\ ~sst_last.res.val.some) => sst_out = all

\* f1 and f2 merged into f3, f3 iterated to the end
C9_Witness ==
    /\ ReadingCommitted
    /\ sst_it.some
    /\ sst_r.val.path = SSTPaths[3]
    /\ sst_log[SSTPaths[3]] = <<[op |-> "merge", path |-> SSTPaths[1]],
                               [op |-> "merge", path |-> SSTPaths[2]]>>
    /\ sst_log[SSTPaths[1]] = <<[op |-> "add", key |-> StrB, val |-> StrXYY]>>
    /\ sst_log[SSTPaths[2]] = <<[op |-> "add", key |-> StrAB, val |-> <<>>]>>
    /\ sst_out = <<<<StrB, StrXYY>>, <<StrAB, <<>>>>>>
    /\ sst_last.op = "next"
    /\ ~sst_last.res.val.some


\* the pairs of the add calls made on a builder, those made by merge_file for
\* the entries of the merged file included
RECURSIVE AddCalls(_, _)
AddCalls(files, ops) ==
    IF ops = <<>> THEN <<>>
    ELSE (IF ops[1].op = "add" THEN <<<<ops[1].key, ops[1].val>>>>
          ELSE IterAll(files, ops[1].path))
         \o AddCalls(files, Tail(ops))

\* the length of the data section of these pairs
RECURSIVE DataLen(_)
DataLen(adds) ==
    IF adds = <<>> THEN 0
    ELSE 8 + RLen(adds[1][1]) + RLen(adds[1][2]) + DataLen(Tail(adds))

\* the index entries from the i-th on, read from pos: each holds the key of
\* the i-th pair and the offset off at which the record of that pair starts
\* with its key length, and the entries end where the footer begins
RECURSIVE IndexMatches(_, _, _, _, _)
IndexMatches(file, adds, i, pos, off) ==
    IF i > Len(adds) THEN pos = RLen(file) - 8
    ELSE \A key \in {ReadLenString(file, pos)} :
            /\ key.ok
            /\ key.val.data = adds[i][1]
            /\ \A offset \in {ReadU32(file, key.val.pos)} :
                  /\ offset.ok
                  /\ offset.val.data = off
                  /\ \A rec \in {ReadLenString(file, off)} :
                        /\ rec.ok
                        /\ rec.val.data = adds[i][1]
                        /\ rec.val.pos = off + 4 + RLen(adds[i][1])
                  /\ IndexMatches(file, adds, i + 1, offset.val.pos,
                                  off + 8 + RLen(adds[i][1]) + RLen(adds[i][2]))

\* C40: in every SSTable file, as commit leaves it, the footer's num_entries
\* is the number of add calls, its index_offset is the length of the data
\* section (the sum of 8 + len(key) + len(value) over the entries), and the
\* i-th index entry holds the key of the i-th add and the byte position at
\* which the key-length field of the i-th record begins.
C40_FooterAndIndex ==
    \A path \in {p \in sst_done : sst_last.op = "commit" /\ sst_last.arg = p} :
        \A adds \in {AddCalls(sst_files, sst_log[path])} :
            /\ \A num_entries \in {ReadU32(sst_files[path], RLen(sst_files[path]) - 8)} :
                  num_entries.ok /\ num_entries.val.data = Len(adds)
            /\ \A index_loc \in {ReadU32(sst_files[path], RLen(sst_files[path]) - 4)} :
                  index_loc.ok /\ index_loc.val.data = DataLen(adds)
            /\ IndexMatches(sst_files[path], adds, 1, DataLen(adds), 0)

\* a committed file of three add calls, the second with an empty value
C40_Witness ==
    /\ SSTPaths[1] \in sst_done
    /\ ~sst_b.some
    /\ sst_pc = "build"
    /\ sst_log[SSTPaths[1]] = <<[op |-> "add", key |-> StrB, val |-> StrXYY],
                                [op |-> "add", key |-> StrAB, val |-> <<>>],
                                [op |-> "add", key |-> StrB, val |-> StrXYY]>>
    /\ sst_last.op = "commit"
    /\ RLen(sst_files[SSTPaths[1]]) = 34 + 28 + 8
-----------------------------------------------------------------------------
(* The LSM tree as a state machine: a client calls set and flush_memtable   *)
(* on a tree opened on an empty directory, then reads keys with get (get    *)
(* takes &self and changes neither the tree nor the files).                 *)

\* number of set calls
MaxSets == 3

StrA == FromBytes(<<97>>)

StrC == FromBytes(<<99>>)

StrX == FromBytes(<<120>>)

\* 2 MiB of 'v': two such pairs do not fit the threshold
Str2M == <<<<118, 2 * 1024 * 1024>>>>

\* the pairs set
LSMPairs == {<<StrA, Str2M>>, <<StrB, Str2M>>, <<StrAB, StrX>>, <<StrA, StrX>>}

\* the keys read
LSMKeys == {StrA, StrAB, StrB, StrC}

\* the n-th name Uuid::new_v4 returns, hyphenated
UuidName(n) ==
    <<<<48 + n, 8>>, <<45, 1>>, <<48 + n, 4>>, <<45, 1>>, <<48 + n, 4>>, <<45, 1>>,
      <<48 + n, 4>>, <<45, 1>>, <<48 + n, 12>>>>

LSMNoCall == [op |-> "none", key |-> <<>>, res |-> Ok(None)]

LSMInit ==
    /\ lsm_pc = "run"
    /\ lsm_tree = LSMTree_new(EmptyMap).val
    /\ lsm_files = EmptyMap
    /\ lsm_uuids = 0
    /\ lsm_log = <<>>
    /\ lsm_last = LSMNoCall

\* LSMTree::set; a panic ends the run
LSM_Set ==
    /\ lsm_pc = "run"
    /\ Len(lsm_log) < MaxSets
    /\ \E kv \in LSMPairs :
          LET key == kv[1]
              val == kv[2]
              r == LSMTree_set(lsm_tree, lsm_files, key, val, UuidName(lsm_uuids + 1))
          IN /\ lsm_tree' = r.tree
             /\ lsm_files' = r.files
             /\ lsm_uuids' = IF Len(r.tree.sstables) > Len(lsm_tree.sstables)
                             THEN lsm_uuids + 1 ELSE lsm_uuids
             /\ lsm_pc' = IF r.res = Panic THEN "panic" ELSE "run"
             /\ lsm_log' = IF r.res.ok THEN Append(lsm_log, <<key, val>>) ELSE lsm_log
             /\ lsm_last' = [op |-> "set", key |-> key, res |-> r.res]

\* a forced LSMTree::flush_memtable
LSM_FlushMemtable ==
    /\ lsm_pc = "run"
    /\ LET r == LSMTree_flush_memtable(lsm_tree, lsm_files, UuidName(lsm_uuids + 1))
       IN /\ lsm_tree' = r.tree
          /\ lsm_files' = r.files
          /\ lsm_uuids' = IF r.res.ok THEN lsm_uuids + 1 ELSE lsm_uuids
          /\ lsm_pc' = IF r.res = Panic THEN "panic" ELSE "run"
          /\ lsm_last' = [op |-> "flush_memtable", key |-> <<>>, res |-> r.res]
    /\ UNCHANGED lsm_log

LSM_Get ==
    /\ lsm_pc \in {"run", "read"}
    /\ \E key \in LSMKeys :
          lsm_last' = [op |-> "get", key |-> key,
                       res |-> LSMTree_get(lsm_tree, lsm_files, key)]
    /\ lsm_pc' = "read"
    /\ UNCHANGED <<lsm_tree, lsm_files, lsm_uuids, lsm_log>>

-----------------------------------------------------------------------------
(* Properties of the LSM tree *)

\* C10: after any set calls with pairwise distinct keys, interleaved with
\* threshold-triggered and forced flushes, get(k) returns Some(v) for every
\* pair (k, v) that was set and None for every key never set.
C10_GetAfterSets ==
    (lsm_last.op = "get" /\ DistinctKeys(lsm_log)) =>
        IF \E i \in 1..Len(lsm_log) : lsm_log[i][1] = lsm_last.key
        THEN \E i \in 1..Len(lsm_log) :
                /\ lsm_log[i][1] = lsm_last.key
                /\ lsm_last.res = Ok(Some(lsm_log[i][2]))
        ELSE lsm_last.res = Ok(None)

\* a pair flushed by the threshold, then a forced flush, then the first pair
\* read back from its SSTable
C10_Witness ==
    /\ lsm_log = <<<<StrB, Str2M>>, <<StrA, Str2M>>, <<StrAB, StrX>>>>
    /\ Len(lsm_tree.sstables) = 2
    /\ lsm_tree.sstables[1].min_key = StrB
    /\ lsm_tree.sstables[2].min_key = StrA
    /\ lsm_tree.sstables[2].max_key = StrAB
    /\ DOMAIN lsm_tree.memtable.map = {}
    /\ lsm_last.op = "get"
    /\ lsm_last.key = StrB
    /\ lsm_last.res = Ok(Some(Str2M))


\* the step is a completed LSMTree::set
IsSetStep ==
    /\ lsm_last'.op = "set"
    /\ lsm_last'.res.ok
    /\ Len(lsm_log') = Len(lsm_log) + 1

\* C11: the MemTable holds one entry per key: a set of a key that is already
\* in the MemTable, with no flush in between, replaces its value and adds no
\* entry, and get returns the later value.
C11_SetReplaces ==
    [][(/\ IsSetStep
        /\ lsm_log'[Len(lsm_log')][1] \in DOMAIN lsm_tree.memtable.map
        /\ Len(lsm_tree'.sstables) = Len(lsm_tree.sstables))
       => /\ DOMAIN lsm_tree'.memtable.map = DOMAIN lsm_tree.memtable.map
          /\ lsm_tree'.memtable.map[lsm_log'[Len(lsm_log')][1]]
                = lsm_log'[Len(lsm_log')][2]
          /\ LSMTree_get(lsm_tree', lsm_files', lsm_log'[Len(lsm_log')][1])
                = Ok(Some(lsm_log'[Len(lsm_log')][2]))]_vars

\* a key set twice in a row with different values and read back
C11_Witness ==
    /\ lsm_log = <<<<StrA, Str2M>>, <<StrA, StrX>>>>
    /\ lsm_tree.sstables = <<>>
    /\ DOMAIN lsm_tree.memtable.map = {StrA}
    /\ lsm_last.op = "get"
    /\ lsm_last.key = StrA
    /\ lsm_last.res = Ok(Some(StrX))

\* the largest 8 + len(key) + len(value) over the pairs set
MaxEntrySize ==
    CHOOSE s \in {8 + RLen(kv[1]) + RLen(kv[2]) : kv \in LSMPairs} :
        \A kv \in LSMPairs : 8 + RLen(kv[1]) + RLen(kv[2]) <= s

RECURSIVE EntriesSize(_, _)
EntriesSize(map, keys) ==
    IF keys = {} THEN 0
    ELSE The({8 + RLen(k) + RLen(map[k]) + EntriesSize(map, keys \ {k}) :
              k \in {CHOOSE x \in keys : TRUE}})

\* C25: in every reachable state the projected size of the MemTable is the
\* sum of 8 + len(key) + len(value) over the entries of its map, also after
\* a key that is in the map is set again.
C25_ProjectedSizeIsSum ==
    lsm_tree.memtable.flush_size
        = EntriesSize(lsm_tree.memtable.map, DOMAIN lsm_tree.memtable.map)

\* the value of the last pair with this key
LatestValue(pairs, key) ==
    pairs[CHOOSE i \in 1..Len(pairs) :
              /\ pairs[i][1] = key
              /\ \A j \in (i + 1)..Len(pairs) : pairs[j][1] # key][2]

\* C26: after any set and flush_memtable calls, get(k) returns the value of
\* the most recent set of k, also when an earlier value of k is in an SSTable
\* and the later one is in the MemTable or in a later SSTable; a flush does
\* not change what get returns.
C26_GetReturnsLatest ==
    lsm_pc # "panic"
        => \A i \in 1..Len(lsm_log) :
              LSMTree_get(lsm_tree, lsm_files, lsm_log[i][1]).ok
              /\ LSMTree_get(lsm_tree, lsm_files, lsm_log[i][1])
                    = Ok(Some(LatestValue(lsm_log, lsm_log[i][1])))

\* C27: flush_memtable can be called in every reachable state, the empty
\* MemTable included, and returns Ok or Err: neither a forced flush nor the
\* flush inside set ends in a panic.
C27_FlushNeverAborts ==
    lsm_last.op \in {"flush_memtable", "set"}
        => (lsm_last.res.ok \/ lsm_last.res.err # "panic")

\* C28: a forced flush_memtable that returns Ok on a non-empty MemTable
\* creates one new SSTable file that holds every entry of the MemTable in
\* ascending key order, appends one SSTableMeta with level 0 whose min_key
\* and max_key are the smallest and the largest key of the MemTable, leaves
\* the earlier metas as they were and in place, and leaves the MemTable empty
\* with its projected size at 0.
C28_FlushWritesSortedSST ==
    [][(lsm_last'.op = "flush_memtable" /\ lsm_last'.res.ok)
       => /\ DOMAIN lsm_tree.memtable.map # {}
          /\ Len(lsm_tree'.sstables) = Len(lsm_tree.sstables) + 1
          /\ SubSeq(lsm_tree'.sstables, 1, Len(lsm_tree.sstables)) = lsm_tree.sstables
          /\ lsm_tree'.memtable = [map |-> EmptyMap, flush_size |-> 0]
          /\ \A new \in {lsm_tree'.sstables[Len(lsm_tree'.sstables)]} :
                /\ new.level = 0
                /\ new.min_key \in DOMAIN lsm_tree.memtable.map
                /\ new.max_key \in DOMAIN lsm_tree.memtable.map
                /\ \A k \in DOMAIN lsm_tree.memtable.map :
                      RLeq(new.min_key, k) /\ RLeq(k, new.max_key)
                /\ new.filename \notin DOMAIN lsm_files
                /\ DOMAIN lsm_files' = DOMAIN lsm_files \cup {new.filename, META_FILENAME}
                /\ \A e \in {IterAll(lsm_files', new.filename)} :
                      /\ {e[j] : j \in 1..Len(e)}
                           = {<<k, lsm_tree.memtable.map[k]>> :
                                 k \in DOMAIN lsm_tree.memtable.map}
                      /\ \A j \in 1..(Len(e) - 1) :
                            RLeq(e[j][1], e[j + 1][1]) /\ e[j][1] # e[j + 1][1]]_vars

\* the second forced flush wrote b and ab, set in this order, after a
C28_Witness ==
    /\ lsm_last.op = "flush_memtable"
    /\ lsm_last.res.ok
    /\ lsm_log = <<<<StrA, StrX>>, <<StrB, Str2M>>, <<StrAB, StrX>>>>
    /\ Len(lsm_tree.sstables) = 2
    /\ lsm_tree.sstables[1].max_key = StrA
    /\ lsm_tree.sstables[2].min_key = StrAB
    /\ lsm_tree.sstables[2].max_key = StrB
    /\ IterAll(lsm_files, lsm_tree.sstables[2].filename)
         = <<<<StrAB, StrX>>, <<StrB, Str2M>>>>
    /\ lsm_tree.memtable = [map |-> EmptyMap, flush_size |-> 0]


\* C38: every SSTableMeta of the tree has min_key <= max_key, and every key
\* stored in its file lies in [min_key, max_key], so in_range(key) is true
\* for every SSTable whose file holds the key.
C38_KeysWithinMetaRange ==
    \A i \in 1..Len(lsm_tree.sstables) :
        \A e \in {IterAll(lsm_files, lsm_tree.sstables[i].filename)} :
            /\ RLeq(lsm_tree.sstables[i].min_key, lsm_tree.sstables[i].max_key)
            /\ e # <<>>
            /\ \A j \in 1..Len(e) :
                  SSTableMeta_in_range(lsm_tree.sstables[i], e[j][1])

\* one SSTable holds a, ab and b between min_key a and max_key b
C38_Witness ==
    /\ Len(lsm_tree.sstables) = 1
    /\ lsm_tree.sstables[1].min_key = StrA
    /\ lsm_tree.sstables[1].max_key = StrB
    /\ Len(IterAll(lsm_files, lsm_tree.sstables[1].filename)) = 3
    /\ lsm_tree.memtable.map = EmptyMap
-----------------------------------------------------------------------------
(* The LSM tree over the life of its directory: flush_memtable may fail at  *)
(* an I/O step, the tree is dropped and opened again with LSMTree::new on   *)
(* the same directory, and the metadata file may have been cut short in     *)
(* between.                                                                 *)

\* the lengths a metadata file is cut to
CutLens == {0, 1, 4, 5, 46}

\* flush_memtable with a failing I/O step; the client does not use the tree
\* after the error
LSM_FlushFault ==
    /\ lsm_pc = "run"
    /\ \E fault \in IOFaults :
          LET r == LSMTree_flush_memtable_io(lsm_tree, lsm_files,
                                             UuidName(lsm_uuids + 1), fault)
          IN /\ lsm_tree' = r.tree
             /\ lsm_files' = r.files
             /\ lsm_pc' = IF r.res = Panic THEN "panic" ELSE "faulted"
             /\ lsm_last' = [op |-> "flush_memtable", key |-> <<>>, res |-> r.res]
    /\ lsm_uuids' = lsm_uuids + 1
    /\ UNCHANGED lsm_log

\* the process ends and the metadata file loses its tail
LSM_CutMeta ==
    /\ lsm_pc = "run"
    /\ META_FILENAME \in DOMAIN lsm_files
    /\ \E n \in CutLens :
          /\ n < RLen(lsm_files[META_FILENAME])
          /\ lsm_files' = [lsm_files EXCEPT ![META_FILENAME] = RTake(@, n)]
    /\ lsm_pc' = "cut"
    /\ lsm_last' = [op |-> "cut", key |-> <<>>, res |-> Ok(TRUE)]
    /\ UNCHANGED <<lsm_tree, lsm_uuids, lsm_log>>

\* the tree is dropped and LSMTree::new runs on the directory; the run ends
\* with the tree it returns
LSM_Reopen ==
    /\ lsm_pc \in {"run", "faulted", "cut"}
    /\ LET r == LSMTree_new(lsm_files)
       IN /\ lsm_tree' = IF r.ok THEN r.val ELSE lsm_tree
          /\ lsm_pc' = IF r.ok THEN "reopened" ELSE "failed"
          /\ lsm_last' = [op |-> "new", key |-> <<>>, res |-> r]
    /\ UNCHANGED <<lsm_files, lsm_uuids, lsm_log>>

-----------------------------------------------------------------------------
(* Properties of the metadata file and of a failing flush *)

\* C17: the metadata file written by flush_metadata after n >= 1 flushes is
\* read back by tryload_meta as the same list of SSTableMeta, and every key
\* found in an SSTable before is found after LSMTree::new on the directory.
C17_ManifestRoundTrip ==
    [][(/\ lsm_pc = "run"
        /\ lsm_last'.op = "new"
        /\ Len(lsm_tree.sstables) >= 1)
       => /\ lsm_last'.res.ok
          /\ lsm_tree'.sstables = lsm_tree.sstables
          /\ \A k \in LSMKeys :
                GetFrom(lsm_tree', lsm_files', k, 1) = GetFrom(lsm_tree, lsm_files, k, 1)]_vars

\* C18: LSMTree::new on a directory without a metadata file returns a tree
\* with no SSTables and an empty MemTable.
C18_OpenWithoutManifest ==
    (lsm_last.op = "new" /\ META_FILENAME \notin DOMAIN lsm_files)
        => /\ lsm_last.res.ok
           /\ lsm_pc = "reopened"
           /\ lsm_tree.sstables = <<>>
           /\ lsm_tree.memtable = [map |-> EmptyMap, flush_size |-> 0]

\* opened again after pairs were set and an SSTable file was left behind by a
\* flush that failed before the metadata file was written
C18_Witness ==
    /\ lsm_last.op = "new"
    /\ lsm_last.res.ok
    /\ META_FILENAME \notin DOMAIN lsm_files
    /\ SstFilename(UuidName(1)) \in DOMAIN lsm_files
    /\ Len(lsm_log) = 2
    /\ lsm_tree.sstables = <<>>

\* C19: LSMTree::new on a directory whose metadata file was cut short (to
\* nothing, or to less than it declares) succeeds with no SSTables.
C19_OpenTruncatedManifest ==
    [][(lsm_pc = "cut" /\ lsm_last'.op = "new")
       => /\ lsm_last'.res.ok
          /\ lsm_tree'.sstables = <<>>]_vars

\* C20: a flush_memtable that returns an I/O error leaves the MemTable (map
\* and size counter), the list of SSTables and the metadata file as they were.
C20_FailedFlushChangesNothing ==
    [][(/\ lsm_last'.op = "flush_memtable"
        /\ ~lsm_last'.res.ok
        /\ lsm_last'.res.err = "io")
       => /\ lsm_tree'.memtable = lsm_tree.memtable
          /\ lsm_tree'.sstables = lsm_tree.sstables
          /\ (META_FILENAME \in DOMAIN lsm_files') = (META_FILENAME \in DOMAIN lsm_files)
          /\ META_FILENAME \in DOMAIN lsm_files
                => lsm_files'[META_FILENAME] = lsm_files[META_FILENAME]]_vars

-----------------------------------------------------------------------------
(* The write-ahead log (storage/wal.rs).  A record is a timestamp, a key    *)
(* and a value; a Duration is [secs, nanos] with secs a u64 held as four    *)
(* 16-bit limbs, least significant first.                                   *)

\* "rustydb.wal"
WAL_FILENAME == FromBytes(<<114, 117, 115, 116, 121, 100, 98, 46, 119, 97, 108>>)

\* write_u64::<LittleEndian>(secs)
U64LE(secs) ==
    FromBytes(<<secs[1] % 256, secs[1] \div 256, secs[2] % 256, secs[2] \div 256,
                secs[3] % 256, secs[3] \div 256, secs[4] % 256, secs[4] \div 256>>)

\* read_u64::<LittleEndian>() at pos: Ok([data, pos]) or an error
ReadU64(file, pos) ==
    The({IF ~r.ok THEN r
         ELSE Ok([data |-> [i \in 1..4 |-> RByte(r.val.data, 2 * i - 2)
                                           + 256 * RByte(r.val.data, 2 * i - 1)],
                  pos |-> r.val.pos]) :
         r \in {ReadExact(file, pos, 8)}})

\* secs + c from limb i on; the addition of Duration::new panics on overflow
RECURSIVE AddCarry(_, _, _)
AddCarry(secs, i, c) ==
    IF c = 0 THEN Ok(secs)
    ELSE IF i > 4 THEN Panic
    ELSE AddCarry([secs EXCEPT ![i] = (@ + c) % 65536], i + 1, (secs[i] + c) \div 65536)

\* Duration::new(secs, nsecs): whole seconds of nsecs are carried into secs
Duration_new(secs, nsecs) ==
    The({IF ~s.ok THEN s ELSE Ok([secs |-> s.val, nanos |-> nsecs % 1000000000]) :
         s \in {AddCarry(secs, 1, nsecs \div 1000000000)}})

\* WALWriter::new: the file is created empty; the writer is [path, buf]
WALWriter_new(files) ==
    [w |-> [path |-> WAL_FILENAME, buf |-> <<>>], files |-> FileCreate(files, WAL_FILENAME)]

\* the six writes of add, in order
WALRecordWrites(timestamp, key, val) ==
    <<U64LE(timestamp.secs), U32LE(timestamp.nanos),
      U32LE(RLen(key)), key, U32LE(RLen(val)), val>>

\* leaves the record in the buffer of the writer
WALWriter_add_noflush(w, files, timestamp, key, val) ==
    BufWriter_write_each(w, files, WALRecordWrites(timestamp, key, val))

\* WALWriter::add: [w, files] after the writes and the flush
WALWriter_add(w, files, timestamp, key, val) ==
    The({BufWriter_flush(written.w, written.files) :
         written \in {BufWriter_write_each(w, files,
                                          WALRecordWrites(timestamp, key, val))}})

\* WALReader::new: the file is created if it does not exist and is not
\* truncated; the reader is its position in the file
WALReader_new(files) ==
    [r |-> [pos |-> 0],
     files |-> IF WAL_FILENAME \in DOMAIN files THEN files
               ELSE FileCreate(files, WAL_FILENAME)]

\* hands out what is left of a value that is cut short
WALReader_read_entry_short(file, pos) ==
    The({
        IF ~secs.ok THEN secs
        ELSE The({
            IF ~nsecs.ok THEN nsecs
            ELSE The({
                IF ~key.ok THEN key
                ELSE The({
                    IF ~vallen.ok THEN vallen
                    ELSE The({
                        IF ~d.ok THEN d
                        ELSE Ok([entry |-> [ts |-> d.val, key |-> key.val.data,
                                            val |-> RDrop(file, vallen.val.pos)],
                                 pos |-> RLen(file)]) :
                        d \in {Duration_new(secs.val.data, nsecs.val.data)}}) :
                    vallen \in {ReadU32(file, key.val.pos)}}) :
                key \in {ReadLenString(file, nsecs.val.pos)}}) :
            nsecs \in {ReadU32(file, secs.val.pos)}}) :
        secs \in {ReadU64(file, pos)}})

\* WALReader::read_entry at pos: Ok([entry, pos]), the error of the read that
\* failed, or the panic of Duration::new
WALReader_read_entry(file, pos) ==
    The({
        IF ~secs.ok THEN secs
        ELSE The({
            IF ~nsecs.ok THEN nsecs
            ELSE The({
                IF ~key.ok THEN key
                ELSE The({
                    IF ~val.ok THEN val
                    ELSE The({
                        IF ~d.ok THEN d
                        ELSE Ok([entry |-> [ts |-> d.val, key |-> key.val.data,
                                            val |-> val.val.data],
                                 pos |-> val.val.pos]) :
                        d \in {Duration_new(secs.val.data, nsecs.val.data)}}) :
                    val \in {ReadLenString(file, key.val.pos)}}) :
                key \in {ReadLenString(file, nsecs.val.pos)}}) :
            nsecs \in {ReadU32(file, secs.val.pos)}}) :
        secs \in {ReadU64(file, pos)}})

\* Iterator::next: [res, r] with res Ok(Some(entry)), Ok(None) or a panic; an
\* error of read_entry ends the iteration, and the read that failed has
\* consumed the rest of the file
WALReader_next(file, r) ==
    The({
        IF e.ok THEN [res |-> Ok(Some(e.val.entry)), r |-> [pos |-> e.val.pos]]
        ELSE IF e.err = "panic" THEN [res |-> Panic, r |-> r]
        ELSE [res |-> Ok(None), r |-> [pos |-> RLen(file)]] :
        e \in {WALReader_read_entry(file, r.pos)}})

\* the items a `for` loop over a reader gets: Ok(entries) or a panic
RECURSIVE WALReadFrom(_, _, _)
WALReadFrom(file, r, entries) ==
    The({
        IF ~n.res.ok THEN n.res
        ELSE IF ~n.res.val.some THEN Ok(entries)
        ELSE WALReadFrom(file, n.r, Append(entries, n.res.val.val)) :
        n \in {WALReader_next(file, r)}})

-----------------------------------------------------------------------------
(* The log as a state machine: a writer adds records, a reader opened on    *)
(* the same directory iterates, and the process of the writer may die in    *)
(* the middle of a record, which leaves a part of it at the end of the file *)

\* number of add calls
MaxRecords == 2

\* 9000 bytes of 'w': more than the buffer of the writer holds
Str9K == <<<<119, 9000>>>>

\* the records added
WALRecords ==
    {[ts |-> [secs |-> <<65535, 26000, 0, 0>>, nanos |-> 999999999],
      key |-> StrA, val |-> StrX],
     [ts |-> [secs |-> <<513, 0, 65535, 32767>>, nanos |-> 0],
      key |-> StrAB, val |-> <<>>],
     [ts |-> [secs |-> <<0, 0, 1, 0>>, nanos |-> 1000000],
      key |-> StrB, val |-> Str9K]}

\* the lengths at which a record of len bytes with a key of klen bytes is cut
CutPoints(klen, len) ==
    {n \in {1, 12, 16, 16 + klen - 1, 16 + klen, 16 + klen + 2, len - 1} :
        0 < n /\ n < len}

WALNoCall == [op |-> "none", res |-> Ok(None)]

WALInit ==
    /\ wal_pc = "write"
    /\ wal_files = WALWriter_new(EmptyMap).files
    /\ wal_w = WALWriter_new(EmptyMap).w
    /\ wal_log = <<>>
    /\ wal_r = None
    /\ wal_out = <<>>
    /\ wal_last = WALNoCall

\* WALWriter::add
WAL_Add ==
    /\ wal_pc = "write"
    /\ Len(wal_log) < MaxRecords
    /\ \E rec \in WALRecords :
          LET a == WALWriter_add(wal_w, wal_files, rec.ts, rec.key, rec.val)
          IN /\ wal_w' = a.w
             /\ wal_files' = a.files
             /\ wal_log' = Append(wal_log, rec)
             /\ wal_last' = [op |-> "add", res |-> Ok(None)]
    /\ UNCHANGED <<wal_pc, wal_r, wal_out>>

\* the process dies in an add: a proper part of the record reached the file
WAL_Crash ==
    /\ wal_pc = "write"
    /\ \E rec \in WALRecords :
          LET a == WALWriter_add(wal_w, wal_files, rec.ts, rec.key, rec.val)
              old == RLen(wal_files[WAL_FILENAME])
          IN \E n \in CutPoints(RLen(rec.key), 20 + RLen(rec.key) + RLen(rec.val)) :
                wal_files' = [wal_files EXCEPT
                                 ![WAL_FILENAME] = RTake(a.files[WAL_FILENAME], old + n)]
    /\ wal_pc' = "crashed"
    /\ wal_last' = [op |-> "crash", res |-> Ok(None)]
    /\ UNCHANGED <<wal_w, wal_log, wal_r, wal_out>>

\* WALReader::new on the directory
WAL_Open ==
    /\ ~wal_r.some
    /\ LET o == WALReader_new(wal_files)
       IN /\ wal_r' = Some(o.r)
          /\ wal_files' = o.files
    /\ wal_last' = [op |-> "open", res |-> Ok(None)]
    /\ UNCHANGED <<wal_pc, wal_w, wal_log, wal_out>>

\* Iterator::next on the reader; a panic ends the run
WAL_Next ==
    /\ wal_r.some
    /\ wal_pc \in {"write", "crashed"}
    /\ LET n == WALReader_next(wal_files[WAL_FILENAME], wal_r.val)
       IN /\ wal_r' = Some(n.r)
          /\ wal_out' = IF n.res.ok /\ n.res.val.some
                        THEN Append(wal_out, n.res.val.val) ELSE wal_out
          /\ wal_pc' = IF n.res.ok THEN wal_pc ELSE "panic"
          /\ wal_last' = [op |-> "next", res |-> n.res]
    /\ UNCHANGED <<wal_files, wal_w, wal_log>>

-----------------------------------------------------------------------------
(* Properties of the log *)

\* s is the first Len(s) items of t
IsPrefixOf(s, t) == Len(s) <= Len(t) /\ s = SubSeq(t, 1, Len(s))

\* C14: as soon as add has returned, with the writer still open, the records
\* added so far are in the file: a reader gets all of them, in the order of
\* the add calls, each with the secs, nanos, key and value that were added.
C14_AddedRecordsReadable ==
    wal_pc = "write" =>
        /\ WALReadFrom(wal_files[WAL_FILENAME], [pos |-> 0], <<>>) = Ok(wal_log)
        /\ IsPrefixOf(wal_out, wal_log)
        /\ (wal_last.op = "next" /\ ~wal_last.res.val.some) => wal_out = wal_log

\* two records added and both returned by the reader, which is at the end of the file
C14_Witness ==
    /\ wal_pc = "write"
    /\ Len(wal_log) = 2
    /\ wal_log[1].ts.nanos = 999999999
    /\ wal_log[2].val = Str9K
    /\ wal_out = wal_log
    /\ wal_last.op = "next"
    /\ wal_r.val.pos = RLen(wal_files[WAL_FILENAME])

\* C15: when the file ends with a part of a record, cut anywhere in its
\* header, key or value, the reader returns each complete record before it,
\* in order, and then None: no error and no panic.
C15_PartialTailIgnored ==
    wal_pc = "crashed" =>
        /\ WALReadFrom(wal_files[WAL_FILENAME], [pos |-> 0], <<>>) = Ok(wal_log)
        /\ IsPrefixOf(wal_out, wal_log)
        /\ (wal_last.op = "next" /\ ~wal_last.res.val.some) => wal_out = wal_log

\* two records and a part of a third: the third next returns None
C15_Witness ==
    /\ wal_pc = "crashed"
    /\ Len(wal_log) = 2
    /\ RLen(wal_files[WAL_FILENAME]) > RLen(wal_log[1].key) + RLen(wal_log[1].val)
                                        + RLen(wal_log[2].key) + RLen(wal_log[2].val) + 56
    /\ wal_out = wal_log
    /\ wal_last.op = "next"
    /\ ~wal_last.res.val.some

-----------------------------------------------------------------------------
(* RustyStore (storage/store.rs): the LSM tree behind a write-ahead log.    *)
(* The compaction thread started by new only waits on need_compact, which   *)
(* no code sets, and compact_finished stays true: set never waits.          *)

\* the replay loop of RustyStore::new from the position r of the reader:
\* [res, tree, files, uuids]; fault is the I/O step that fails in a flush
RECURSIVE Replay(_, _, _, _, _)
Replay(tree, files, r, uuids, fault) ==
    The({
        IF ~n.res.ok
        THEN [res |-> n.res, tree |-> tree, files |-> files, uuids |-> uuids]
        ELSE IF ~n.res.val.some
        THEN [res |-> Ok(TRUE), tree |-> tree, files |-> files, uuids |-> uuids]
        ELSE The({
            IF ~s.res.ok
            THEN [res |-> s.res, tree |-> s.tree, files |-> s.files, uuids |-> uuids + 1]
            ELSE Replay(s.tree, s.files, n.r,
                        IF Len(s.tree.sstables) > Len(tree.sstables)
                        THEN uuids + 1 ELSE uuids, fault) :
            s \in {LSMTree_set_io(tree, files, n.res.val.val.key, n.res.val.val.val,
                                  UuidName(uuids + 1), fault)}}) :
        n \in {WALReader_next(files[WAL_FILENAME], r)}})

\* RustyStore::new up to the flush of the recovered records:
\* [res, tree, files, uuids]
RustyStore_recover(files, uuids, fault) ==
    The({
        IF ~lsmtree.ok
        THEN [res |-> lsmtree, tree |-> lsmtree, files |-> files, uuids |-> uuids]
        ELSE The({
            IF ~replayed.res.ok THEN replayed
            ELSE The({
                [res |-> flushed.res, tree |-> flushed.tree, files |-> flushed.files,
                 uuids |-> replayed.uuids + 1] :
                flushed \in {LSMTree_flush_memtable_io(
                                 replayed.tree, replayed.files,
                                 UuidName(replayed.uuids + 1), fault)}}) :
            replayed \in {Replay(lsmtree.val, WALReader_new(files).files,
                                 WALReader_new(files).r, uuids, fault)}}) :
        lsmtree \in {LSMTree_new(files)}})

\* creates the WALWriter, which empties the log, before it looks at the
\* result of the recovery
RustyStore_new_reset_first(files, uuids, fault) ==
    The({The({
        [res |-> rec.res,
         store |-> IF rec.res.ok THEN Some([tree |-> rec.tree, wal |-> w.w]) ELSE None,
         files |-> w.files, uuids |-> rec.uuids] :
        w \in {WALWriter_new(rec.files)}}) :
        rec \in {RustyStore_recover(files, uuids, fault)}})

\* RustyStore::new: [res, store, files, uuids]; the store is [tree, wal]
RustyStore_new(files, uuids, fault) ==
    The({
        IF ~rec.res.ok
        THEN [res |-> rec.res, store |-> None, files |-> rec.files, uuids |-> rec.uuids]
        ELSE The({
            [res |-> Ok(TRUE), store |-> Some([tree |-> rec.tree, wal |-> w.w]),
             files |-> w.files, uuids |-> rec.uuids] :
            w \in {WALWriter_new(rec.files)}}) :
        rec \in {RustyStore_recover(files, uuids, fault)}})

\* the I/O steps of a set that can fail: the write of the record to the log
\* and the steps of a flush
StoreFaults == {"wal_add"} \cup IOFaults

\* RustyStore::set with the I/O step fault failing: [res, store, files].  An
\* error of WALWriter::add is returned before the tree is locked; the result
\* of LSMTree::set is dropped, its panic is not
RustyStore_set_io(store, files, timestamp, key, val, ufname, fault) ==
    IF fault = "wal_add"
    THEN [res |-> Err("io"), store |-> store, files |-> files]
    ELSE The({The({
        [res |-> IF ~s.res.ok /\ s.res.err = "panic" THEN Panic ELSE Ok(TRUE),
         store |-> [tree |-> s.tree, wal |-> a.w],
         files |-> s.files] :
        s \in {LSMTree_set_io(store.tree, a.files, key, val, ufname, fault)}}) :
        a \in {WALWriter_add(store.wal, files, timestamp, key, val)}})

\* RustyStore::set when every I/O step succeeds
RustyStore_set(store, files, timestamp, key, val, ufname) ==
    RustyStore_set_io(store, files, timestamp, key, val, ufname, "none")

RustyStore_get(store, files, key) == LSMTree_get(store.tree, files, key)

-----------------------------------------------------------------------------
(* The store as a state machine over the life of its directory: a log may   *)
(* be there before the first RustyStore::new, the store is opened, pairs    *)
(* are set and read, the process ends, and the store is opened again.       *)

\* number of RustyStore::new calls
MaxOpens == 2

\* number of RustyStore::set calls
MaxStoreSets == 2

StorePairs == {<<StrA, StrX>>, <<StrA, StrC>>, <<StrB, Str2M>>, <<StrA, Str2M>>}

\* the logs found by the first new: one record, two values for one key, two
\* pairs that do not fit the MemTable together
StoreSeeds == {<<<<StrA, StrX>>>>, <<<<StrA, StrX>>, <<StrA, StrC>>>>,
               <<<<StrB, Str2M>>, <<StrA, Str2M>>>>, <<<<StrA, Str2M>>, <<StrB, StrX>>>>}

\* what SystemTime::now() returns for the n-th record
StoreTime(n) == [secs |-> <<n, 26000, 0, 0>>, nanos |-> 0]

\* the files after a WALWriter has added the pairs from the i-th on
RECURSIVE WALAddAll(_, _, _, _)
WALAddAll(w, files, pairs, i) ==
    IF i > Len(pairs) THEN files
    ELSE The({WALAddAll(a.w, a.files, pairs, i + 1) :
              a \in {WALWriter_add(w, files, StoreTime(i), pairs[i][1], pairs[i][2])}})

StoreNoCall == [op |-> "none", key |-> <<>>, fault |-> "none", res |-> Ok(None)]

StoreInit ==
    /\ st_pc = "closed"
    /\ st_files = EmptyMap
    /\ st_store = None
    /\ st_uuids = 0
    /\ st_log = <<>>
    /\ st_opens = 0
    /\ st_last = StoreNoCall

\* before the first new, a WALWriter on the directory adds records
ST_SeedWal ==
    /\ st_pc = "closed"
    /\ st_opens = 0
    /\ st_files = EmptyMap
    /\ \E pairs \in StoreSeeds :
          st_files' = WALAddAll(WALWriter_new(st_files).w, WALWriter_new(st_files).files,
                                pairs, 1)
    /\ st_last' = [StoreNoCall EXCEPT !.op = "seed"]
    /\ UNCHANGED <<st_pc, st_store, st_uuids, st_log, st_opens>>

\* RustyStore::new on the directory; after an error or a panic there is no
\* store
ST_New ==
    /\ st_pc = "closed"
    /\ st_opens < MaxOpens
    /\ \E fault \in {"none"} \cup IOFaults :
          LET r == RustyStore_new(st_files, st_uuids, fault)
          IN /\ st_store' = r.store
             /\ st_files' = r.files
             /\ st_uuids' = r.uuids
             /\ st_pc' = IF r.res.ok THEN "open" ELSE "closed"
             /\ st_last' = [op |-> "new", key |-> <<>>, fault |-> fault, res |-> r.res]
    /\ st_opens' = st_opens + 1
    /\ UNCHANGED st_log

\* RustyStore::set; a panic ends the process
ST_Set ==
    /\ st_pc = "open"
    /\ Len(st_log) < MaxStoreSets
    /\ \E kv \in StorePairs :
          LET r == RustyStore_set(st_store.val, st_files, StoreTime(Len(st_log) + 1),
                                  kv[1], kv[2], UuidName(st_uuids + 1))
          IN /\ st_store' = IF r.res.ok THEN Some(r.store) ELSE None
             /\ st_files' = r.files
             /\ st_uuids' = IF Len(r.store.tree.sstables) > Len(st_store.val.tree.sstables)
                            THEN st_uuids + 1 ELSE st_uuids
             /\ st_pc' = IF r.res.ok THEN "open" ELSE "closed"
             /\ st_log' = IF r.res.ok THEN Append(st_log, kv) ELSE st_log
             /\ st_last' = [op |-> "set", key |-> kv[1], fault |-> "none", res |-> r.res]
    /\ UNCHANGED st_opens

\* RustyStore::set in which an I/O step fails: the write to the log, or a
\* step of the flush that the pair makes necessary; the run ends here
ST_SetFault ==
    /\ st_pc = "open"
    /\ Len(st_log) < MaxStoreSets
    /\ \E kv \in StorePairs, fault \in StoreFaults :
          /\ fault = "wal_add" \/ MemTable_need_flush(st_store.val.tree.memtable,
                                                      kv[1], kv[2])
          /\ LET r == RustyStore_set_io(st_store.val, st_files,
                                        StoreTime(Len(st_log) + 1),
                                        kv[1], kv[2], UuidName(st_uuids + 1), fault)
             IN /\ st_store' = IF ~r.res.ok /\ r.res.err = "panic" THEN None
                                ELSE Some(r.store)
                /\ st_files' = r.files
                /\ st_uuids' = st_uuids + 1
                /\ st_log' = IF r.res.ok THEN Append(st_log, kv) ELSE st_log
                /\ st_last' = [op |-> "set", key |-> kv[1], fault |-> fault,
                               res |-> r.res]
    /\ st_pc' = "faulted"
    /\ UNCHANGED st_opens

\* RustyStore::get
ST_Get ==
    /\ st_pc = "open"
    /\ \E key \in {StrA, StrB} :
          st_last' = [op |-> "get", key |-> key, fault |-> "none",
                      res |-> RustyStore_get(st_store.val, st_files, key)]
    /\ UNCHANGED <<st_pc, st_files, st_store, st_uuids, st_log, st_opens>>

\* the process ends: the store is dropped; add has left nothing in the buffer
\* of the WALWriter
ST_Crash ==
    /\ st_pc = "open"
    /\ st_pc' = "closed"
    /\ st_store' = None
    /\ st_last' = [StoreNoCall EXCEPT !.op = "crash"]
    /\ UNCHANGED <<st_files, st_uuids, st_log, st_opens>>

-----------------------------------------------------------------------------
(* Properties of the store *)

\* the value of key in the newest SSTable that holds it, from the i-th down
RECURSIVE NewestValue(_, _, _, _)
NewestValue(tree, files, key, i) ==
    IF i = 0 THEN Ok(None)
    ELSE The({
        IF ~rd.ok THEN rd
        ELSE The({
            IF ~v.ok \/ v.val.some THEN v ELSE NewestValue(tree, files, key, i - 1) :
            v \in {SSTableFileReader_get(files, rd.val, key)}}) :
        rd \in {SSTableFileReader_open(files, tree.sstables[i].filename)}})

\* the log as the replay finds it in these files
WALPairsOf(files) ==
    IF WAL_FILENAME \notin DOMAIN files THEN <<>>
    ELSE The({IF ~e.ok THEN <<>>
              ELSE [i \in 1..Len(e.val) |-> <<e.val[i].key, e.val[i].val>>] :
              e \in {WALReadFrom(files[WAL_FILENAME], [pos |-> 0], <<>>)}})

\* C13: after completed set calls, the end of the process and RustyStore::new
\* on the same directory, the store opens and get(k) returns the latest value
\* set for every key k of a completed set.
C13_RecoverAfterCrash ==
    (st_last.op = "new" /\ st_last.fault = "none" /\ st_log # <<>>)
        => /\ st_last.res.ok
           /\ \A i \in 1..Len(st_log) :
                 RustyStore_get(st_store.val, st_files, st_log[i][1])
                   = Ok(Some(LatestValue(st_log, st_log[i][1])))

\* C16: RustyStore::new replays the records of the log through LSMTree::set
\* in log order and flushes the MemTable; when it returns Ok the log is empty,
\* the MemTable is empty and the newest SSTable holding a key of the log holds
\* the last value the log has for it; when the replay or the flush fails, the
\* content of the log is as it was.
C16_ReplayFlushThenReset ==
    [][st_last'.op = "new"
       => IF st_last'.res.ok
          THEN /\ st_files'[WAL_FILENAME] = <<>>
               /\ st_store'.val.tree.memtable = [map |-> EmptyMap, flush_size |-> 0]
               /\ \A i \in 1..Len(WALPairsOf(st_files)) :
                     NewestValue(st_store'.val.tree, st_files', WALPairsOf(st_files)[i][1],
                                 Len(st_store'.val.tree.sstables))
                       = Ok(Some(LatestValue(WALPairsOf(st_files),
                                             WALPairsOf(st_files)[i][1])))
          ELSE /\ WAL_FILENAME \in DOMAIN st_files
                     => /\ WAL_FILENAME \in DOMAIN st_files'
                        /\ st_files'[WAL_FILENAME] = st_files[WAL_FILENAME]
               /\ WAL_FILENAME \notin DOMAIN st_files
                     => \/ WAL_FILENAME \notin DOMAIN st_files'
                        \/ st_files'[WAL_FILENAME] = <<>>]_vars

\* a log with two values for one key was replayed, flushed and emptied
C16_Witness ==
    /\ st_last.op = "new"
    /\ st_last.res.ok
    /\ st_opens = 1
    /\ st_files[WAL_FILENAME] = <<>>
    /\ Len(st_store.val.tree.sstables) = 1
    /\ NewestValue(st_store.val.tree, st_files, StrA, 1) = Ok(Some(StrC))

\* C21: RustyStore::set returns an error whenever the write to the log or the
\* insert into the tree, with the flush it triggers, fails with an I/O error;
\* it returns Ok only when the pair is in the log and in the MemTable.
C21_SetReportsFailure ==
    (st_last.op = "set" /\ (st_last.res.ok \/ st_last.res.err # "panic"))
        => /\ st_last.fault # "none" => ~st_last.res.ok
           /\ st_last.res.ok =>
                 /\ WALPairsOf(st_files) # <<>>
                 /\ WALPairsOf(st_files)[Len(WALPairsOf(st_files))]
                       = st_log[Len(st_log)]
                 /\ st_log[Len(st_log)][1] \in DOMAIN st_store.val.tree.memtable.map
                 /\ st_store.val.tree.memtable.map[st_log[Len(st_log)][1]]
                       = st_log[Len(st_log)][2]

-----------------------------------------------------------------------------
(* RustyStore::set step by step, beside the compaction thread that          *)
(* RustyStore::new has started.  new leaves need_compact false and          *)
(* compact_finish true; the thread waits for need_compact, and no           *)
(* statement of the program stores true to need_compact or false to         *)
(* compact_finish.                                                          *)

\* the log the store is opened on (on a directory without records
\* RustyStore::new does not return)
StepSeed == <<<<StrA, StrX>>>>

\* the store RustyStore::new returns on that directory
StepOpened ==
    RustyStore_new(WALAddAll(WALWriter_new(EmptyMap).w, WALWriter_new(EmptyMap).files,
                             StepSeed, 1), 0, "none")

\* answers as if the flag had been seen, without reading it
RustyStore_set_observe_blind(cond) == [observed |-> FALSE, proceed |-> TRUE]

\* the test of the loop `while !*compact_finish`: what the call has read, and
\* whether it leaves the loop
RustyStore_set_observe(cond) ==
    [observed |-> cond.compact_finish, proceed |-> cond.compact_finish]

\* the store as if new had left compact_finish false, as the field's comment
\* describes for a compaction in progress
StepInit_compacting ==
    /\ sp_pc = "idle"
    /\ sp_kv = <<>>
    /\ sp_observed = FALSE
    /\ sp_cond = [need_compact |-> FALSE, compact_finish |-> FALSE]
    /\ sp_locks = [finish |-> "free", tree |-> "free"]
    /\ sp_ct = "start"
    /\ sp_store = StepOpened.store.val
    /\ sp_files = StepOpened.files
    /\ sp_uuids = StepOpened.uuids
    /\ sp_calls = <<>>
    /\ sp_got = [key |-> <<>>, res |-> Err("none")]

StepInit ==
    /\ sp_pc = "idle"
    /\ sp_kv = <<>>
    /\ sp_observed = FALSE
    /\ sp_cond = [need_compact |-> FALSE, compact_finish |-> TRUE]
    /\ sp_locks = [finish |-> "free", tree |-> "free"]
    /\ sp_ct = "start"
    /\ sp_store = StepOpened.store.val
    /\ sp_files = StepOpened.files
    /\ sp_uuids = StepOpened.uuids
    /\ sp_calls = <<>>
    /\ sp_got = [key |-> <<>>, res |-> Err("none")]

\* no store: the state of this part while another part runs
StepIdle ==
    /\ sp_pc = "idle"
    /\ sp_kv = <<>>
    /\ sp_observed = FALSE
    /\ sp_cond = [need_compact |-> FALSE, compact_finish |-> TRUE]
    /\ sp_locks = [finish |-> "free", tree |-> "free"]
    /\ sp_ct = "start"
    /\ sp_store = None
    /\ sp_files = EmptyMap
    /\ sp_uuids = 0
    /\ sp_calls = <<>>
    /\ sp_got = [key |-> <<>>, res |-> Err("none")]

\* set is called and locks the mutex of compact_finish
SET_Lock ==
    /\ sp_pc = "idle"
    /\ Len(sp_calls) < MaxStoreSets
    /\ sp_locks.finish = "free"
    /\ \E kv \in StorePairs :
          /\ sp_kv' = kv
          /\ sp_calls' = Append(sp_calls, kv)
    /\ sp_observed' = FALSE
    /\ sp_locks' = [sp_locks EXCEPT !.finish = "set"]
    /\ sp_pc' = "check"
    /\ UNCHANGED <<sp_cond, sp_ct, sp_store, sp_files, sp_uuids, sp_got>>

\* one round of the loop: with the mutex (held, or taken again when
\* Condvar::wait returns) the flag is read; when it is false the call waits,
\* which releases the mutex
SET_Check ==
    /\ sp_pc = "check"
    /\ sp_locks.finish \in {"set", "free"}
    /\ LET o == RustyStore_set_observe(sp_cond)
       IN /\ sp_observed' = o.observed
          /\ sp_pc' = IF o.proceed THEN "wal" ELSE "check"
          /\ sp_locks' = [sp_locks EXCEPT !.finish = IF o.proceed THEN "set" ELSE "free"]
    /\ UNCHANGED <<sp_kv, sp_cond, sp_ct, sp_store, sp_files, sp_uuids, sp_calls, sp_got>>

\* leaves the record in the buffer of the writer and goes on to the tree
SET_WalAdd_unflushed ==
    /\ sp_pc = "wal"
    /\ \E a \in {WALWriter_add_noflush(sp_store.wal, sp_files, StoreTime(Len(sp_calls)),
                                        sp_kv[1], sp_kv[2])} :
          /\ sp_store' = [sp_store EXCEPT !.wal = a.w]
          /\ sp_files' = a.files
    /\ sp_pc' = "tree"
    /\ UNCHANGED <<sp_kv, sp_observed, sp_cond, sp_locks, sp_ct, sp_uuids, sp_calls, sp_got>>

\* self.wal.add(&timestamp, key, val)?
SET_WalAdd ==
    /\ sp_pc = "wal"
    /\ \E a \in {WALWriter_add(sp_store.wal, sp_files, StoreTime(Len(sp_calls)),
                                sp_kv[1], sp_kv[2])} :
          /\ sp_store' = [sp_store EXCEPT !.wal = a.w]
          /\ sp_files' = a.files
    /\ sp_pc' = "tree"
    /\ UNCHANGED <<sp_kv, sp_observed, sp_cond, sp_locks, sp_ct, sp_uuids, sp_calls, sp_got>>

\* the tree is locked, LSMTree::set runs and set returns, which drops both
\* guards; a panic of LSMTree::set ends the process
SET_TreeSet ==
    /\ sp_pc = "tree"
    /\ sp_locks.tree = "free"
    /\ \E s \in {LSMTree_set(sp_store.tree, sp_files, sp_kv[1], sp_kv[2],
                              UuidName(sp_uuids + 1))} :
          /\ sp_store' = [sp_store EXCEPT !.tree = s.tree]
          /\ sp_files' = s.files
          /\ sp_uuids' = IF Len(s.tree.sstables) > Len(sp_store.tree.sstables)
                         THEN sp_uuids + 1 ELSE sp_uuids
          /\ sp_pc' = IF ~s.res.ok /\ s.res.err = "panic" THEN "panic" ELSE "idle"
    /\ sp_locks' = [finish |-> "free", tree |-> "free"]
    /\ UNCHANGED <<sp_kv, sp_observed, sp_cond, sp_ct, sp_calls, sp_got>>

\* keys asked for
StepKeys == {StrA, StrB}

\* get is called: `self.tree.lock()` is reached
GET_Call ==
    /\ sp_pc = "idle"
    /\ \E key \in StepKeys : sp_got' = [key |-> key, res |-> Err("pending")]
    /\ sp_pc' = "get"
    /\ UNCHANGED <<sp_kv, sp_observed, sp_cond, sp_locks, sp_ct, sp_store, sp_files,
                   sp_uuids, sp_calls>>

\* the tree is locked, LSMTree::get runs and get returns its result, which
\* drops the guard
GET_TreeGet ==
    /\ sp_pc = "get"
    /\ sp_locks.tree = "free"
    /\ sp_got' = [sp_got EXCEPT !.res = RustyStore_get(sp_store, sp_files, sp_got.key)]
    /\ sp_pc' = "idle"
    /\ UNCHANGED <<sp_kv, sp_observed, sp_cond, sp_locks, sp_ct, sp_store, sp_files,
                   sp_uuids, sp_calls>>

\* the closure of start_compaction_thread: it locks need_compact and waits
\* while the flag is false; past the loop it locks the tree, locks
\* compact_finish, stores true and notifies
CT_Step ==
    /\ sp_ct # "exit"
    /\ CASE sp_ct = "start" ->
              /\ sp_ct' = "wait"
              /\ UNCHANGED <<sp_cond, sp_locks>>
         [] sp_ct = "wait" ->
              /\ sp_ct' = IF sp_cond.need_compact THEN "compact" ELSE "wait"
              /\ UNCHANGED <<sp_cond, sp_locks>>
         [] sp_ct = "compact" ->
              /\ sp_locks.tree = "free"
              /\ sp_locks' = [sp_locks EXCEPT !.tree = "ct"]
              /\ sp_ct' = "finish"
              /\ UNCHANGED sp_cond
         [] sp_ct = "finish" ->
              /\ sp_locks.finish = "free"
              /\ sp_cond' = [sp_cond EXCEPT !.compact_finish = TRUE]
              /\ sp_locks' = [sp_locks EXCEPT !.tree = "free"]
              /\ sp_ct' = "exit"
    /\ UNCHANGED <<sp_pc, sp_kv, sp_observed, sp_store, sp_files, sp_uuids, sp_calls,
                   sp_got>>

-----------------------------------------------------------------------------
(* Properties of the steps of set *)

C23_WalThenMemTableThenFlush ==
    [][/\ IsPrefixOf(WALPairsOf(sp_files'), sp_calls')
       /\ (sp_store'.tree # sp_store.tree /\ sp_pc' # "panic")
             => /\ WALPairsOf(sp_files) = sp_calls
                /\ sp_kv[1] \in DOMAIN sp_store'.tree.memtable.map
                /\ sp_store'.tree.memtable.map[sp_kv[1]] = sp_kv[2]
                /\ \A i \in (Len(sp_store.tree.sstables) + 1)
                               ..Len(sp_store'.tree.sstables) :
                      \A e \in {IterAll(sp_files', sp_store'.tree.sstables[i].filename)} :
                         /\ e # <<>>
                         /\ \A j \in 1..Len(e) :
                               /\ e[j][1] \in DOMAIN sp_store.tree.memtable.map
                               /\ sp_store.tree.memtable.map[e[j][1]] = e[j][2]]_vars

\* the second call has flushed the pair of the first and inserted its own
C23_Witness ==
    /\ sp_pc = "idle"
    /\ sp_calls = <<<<StrB, Str2M>>, <<StrA, Str2M>>>>
    /\ WALPairsOf(sp_files) = sp_calls
    /\ Len(sp_store.tree.sstables) = 2
    /\ IterAll(sp_files, sp_store.tree.sstables[2].filename) = <<<<StrB, Str2M>>>>
    /\ sp_store.tree.memtable.map = [k \in {StrA} |-> Str2M]


\* a call of set or get has been made and has not returned
InCall == sp_pc \in {"check", "wal", "tree", "get"}

\* set holds the mutex of compact_finish and wants the tree while the
\* compaction thread holds the tree and wants the mutex of compact_finish
MutualBlock ==
    /\ sp_pc = "tree"
    /\ sp_locks.finish = "set"
    /\ sp_locks.tree = "ct"
    /\ sp_ct = "finish"

\* C36: under fair scheduling of the two threads every call of set and of get
\* returns: a call never finds compact_finish false, never finds the tree
\* locked by the compaction thread, and the two threads never hold one mutex
\* each while waiting for the other's.
C36_CallsReturn ==
    /\ [](InCall => (sp_cond.compact_finish /\ sp_locks.tree = "free"))
    /\ []~MutualBlock
    /\ (InCall ~> sp_pc = "idle")

\* a set call and then a get call for its key have returned
C36_Witness ==
    /\ sp_pc = "idle"
    /\ Len(sp_calls) = 1
    /\ sp_got.key = sp_calls[1][1]
    /\ sp_got.res.ok
    /\ sp_got.res.val = Some(sp_calls[1][2])
    /\ sp_ct = "wait"

\* C37: the step of set whose insertion overflows the MemTable (the tree
\* gains an SSTable) stores true to need_compact and false to compact_finish,
\* and the compaction thread leaves its wait only after need_compact is true.
C37_OverflowWakesCompactor ==
    [][/\ (Len(sp_store'.tree.sstables) > Len(sp_store.tree.sstables))
             => (sp_cond'.need_compact /\ ~sp_cond'.compact_finish)
       /\ (sp_ct = "wait" /\ sp_ct' = "compact") => sp_cond.need_compact]_vars
-----------------------------------------------------------------------------
(* Specifications.  Each runs one part of the program; the variables of     *)
(* the other parts do not change.                                           *)

InitBits ==
    /\ overflow_checks = FALSE
    /\ BitInit
    /\ ScalarInit
    /\ mv_w = GorillaWriterMV_with_vec(MVHeader, 1)
    /\ MVInit
    /\ api_dim = 1 /\ api_entries = <<>>
    /\ ApiInit
    /\ SSTInit
    /\ LSMInit
    /\ WALInit
    /\ StoreInit
    /\ StepIdle

NextBits ==
    \/ BW_Write /\ UNCHANGED <<overflow_checks, scalarVars, mvVars, apiVars, sstVars, lsmVars, walVars, storeVars, stepVars>>
    \/ BW_WriteBit /\ UNCHANGED <<overflow_checks, scalarVars, mvVars, apiVars, sstVars, lsmVars, walVars, storeVars, stepVars>>
    \/ BW_Close /\ UNCHANGED <<overflow_checks, scalarVars, mvVars, apiVars, sstVars, lsmVars, walVars, storeVars, stepVars>>
    \/ BR_ReadBit /\ UNCHANGED <<overflow_checks, scalarVars, mvVars, apiVars, sstVars, lsmVars, walVars, storeVars, stepVars>>
    \/ BR_Read /\ UNCHANGED <<overflow_checks, scalarVars, mvVars, apiVars, sstVars, lsmVars, walVars, storeVars, stepVars>>

SpecBits == InitBits /\ [][NextBits]_vars

InitScalar ==
    /\ overflow_checks \in BOOLEAN
    /\ BitInit
    /\ ScalarInit
    /\ mv_w = GorillaWriterMV_with_vec(MVHeader, 1)
    /\ MVInit
    /\ api_dim = 1 /\ api_entries = <<>>
    /\ ApiInit
    /\ SSTInit
    /\ LSMInit
    /\ WALInit
    /\ StoreInit
    /\ StepIdle

NextScalar ==
    \/ G_AppendFirst /\ UNCHANGED <<overflow_checks, bitVars, mvVars, apiVars, sstVars, lsmVars, walVars, storeVars, stepVars>>
    \/ G_AppendTime /\ UNCHANGED <<overflow_checks, bitVars, mvVars, apiVars, sstVars, lsmVars, walVars, storeVars, stepVars>>
    \/ G_AppendValue /\ UNCHANGED <<overflow_checks, bitVars, mvVars, apiVars, sstVars, lsmVars, walVars, storeVars, stepVars>>
    \/ G_AppendEntry /\ UNCHANGED <<overflow_checks, bitVars, mvVars, apiVars, sstVars, lsmVars, walVars, storeVars, stepVars>>
    \/ G_FromWriter /\ UNCHANGED <<overflow_checks, bitVars, mvVars, apiVars, sstVars, lsmVars, walVars, storeVars, stepVars>>
    \/ G_Next /\ UNCHANGED <<overflow_checks, bitVars, mvVars, apiVars, sstVars, lsmVars, walVars, storeVars, stepVars>>
    \/ G_GetNextTime /\ UNCHANGED <<overflow_checks, bitVars, mvVars, apiVars, sstVars, lsmVars, walVars, storeVars, stepVars>>
    \/ G_GetNextValue /\ UNCHANGED <<overflow_checks, bitVars, mvVars, apiVars, sstVars, lsmVars, walVars, storeVars, stepVars>>

SpecScalar == InitScalar /\ [][NextScalar]_vars

InitMV ==
    /\ overflow_checks \in BOOLEAN
    /\ BitInit
    /\ ScalarInit
    /\ MVInit
    /\ api_dim = 1 /\ api_entries = <<>>
    /\ ApiInit
    /\ SSTInit
    /\ LSMInit
    /\ WALInit
    /\ StoreInit
    /\ StepIdle

NextMV ==
    \/ MV_AppendEntry /\ UNCHANGED <<overflow_checks, bitVars, scalarVars, apiVars, sstVars, lsmVars, walVars, storeVars, stepVars>>

SpecMV == InitMV /\ [][NextMV]_vars

InitApi ==
    /\ overflow_checks \in BOOLEAN
    /\ BitInit
    /\ ScalarInit
    /\ mv_w = GorillaWriterMV_with_vec(MVHeader, 1)
    /\ MVInit
    /\ ApiInit
    /\ SSTInit
    /\ LSMInit
    /\ WALInit
    /\ StoreInit
    /\ StepIdle

NextApi ==
    \/ API_compress_values /\ UNCHANGED <<overflow_checks, bitVars, scalarVars, mvVars, sstVars, lsmVars, walVars, storeVars, stepVars>>
    \/ API_retrieve_values /\ UNCHANGED <<overflow_checks, bitVars, scalarVars, mvVars, sstVars, lsmVars, walVars, storeVars, stepVars>>
    \/ API_retrieve_more /\ UNCHANGED <<overflow_checks, bitVars, scalarVars, mvVars, sstVars, lsmVars, walVars, storeVars, stepVars>>

SpecApi == InitApi /\ [][NextApi]_vars

InitVec ==
    /\ overflow_checks \in BOOLEAN
    /\ BitInit
    /\ ScalarInit
    /\ mv_w = GorillaWriterMV_with_vec(MVHeader, 1)
    /\ MVInit
    /\ api_dim = 2
    /\ ApiInit
    /\ SSTInit
    /\ LSMInit
    /\ WALInit
    /\ StoreInit
    /\ StepIdle

NextVec ==
    \/ API_compress_values /\ UNCHANGED <<overflow_checks, bitVars, scalarVars, mvVars, sstVars, lsmVars, walVars, storeVars, stepVars>>
    \/ API_retrieve_values /\ UNCHANGED <<overflow_checks, bitVars, scalarVars, mvVars, sstVars, lsmVars, walVars, storeVars, stepVars>>
    \/ API_retrieve_more /\ UNCHANGED <<overflow_checks, bitVars, scalarVars, mvVars, sstVars, lsmVars, walVars, storeVars, stepVars>>

SpecVec == InitVec /\ [][NextVec]_vars

InitLSM ==
    /\ overflow_checks = FALSE
    /\ BitInit
    /\ ScalarInit
    /\ mv_w = GorillaWriterMV_with_vec(MVHeader, 1)
    /\ MVInit
    /\ api_dim = 1 /\ api_entries = <<>>
    /\ ApiInit
    /\ SSTInit
    /\ LSMInit
    /\ WALInit
    /\ StoreInit
    /\ StepIdle

NextLSM ==
    \/ LSM_Set /\ UNCHANGED <<overflow_checks, bitVars, scalarVars, mvVars, apiVars, sstVars, walVars, storeVars, stepVars>>
    \/ LSM_FlushMemtable /\ UNCHANGED <<overflow_checks, bitVars, scalarVars, mvVars, apiVars, sstVars, walVars, storeVars, stepVars>>
    \/ LSM_Get /\ UNCHANGED <<overflow_checks, bitVars, scalarVars, mvVars, apiVars, sstVars, walVars, storeVars, stepVars>>

SpecLSM == InitLSM /\ [][NextLSM]_vars

InitReopen ==
    /\ overflow_checks = FALSE
    /\ BitInit
    /\ ScalarInit
    /\ mv_w = GorillaWriterMV_with_vec(MVHeader, 1)
    /\ MVInit
    /\ api_dim = 1 /\ api_entries = <<>>
    /\ ApiInit
    /\ SSTInit
    /\ LSMInit
    /\ WALInit
    /\ StoreInit
    /\ StepIdle

NextReopen ==
    \/ LSM_Set /\ UNCHANGED <<overflow_checks, bitVars, scalarVars, mvVars, apiVars, sstVars, walVars, storeVars, stepVars>>
    \/ LSM_FlushMemtable /\ UNCHANGED <<overflow_checks, bitVars, scalarVars, mvVars, apiVars, sstVars, walVars, storeVars, stepVars>>
    \/ LSM_FlushFault /\ UNCHANGED <<overflow_checks, bitVars, scalarVars, mvVars, apiVars, sstVars, walVars, storeVars, stepVars>>
    \/ LSM_CutMeta /\ UNCHANGED <<overflow_checks, bitVars, scalarVars, mvVars, apiVars, sstVars, walVars, storeVars, stepVars>>
    \/ LSM_Reopen /\ UNCHANGED <<overflow_checks, bitVars, scalarVars, mvVars, apiVars, sstVars, walVars, storeVars, stepVars>>

SpecReopen == InitReopen /\ [][NextReopen]_vars

InitWAL ==
    /\ overflow_checks = FALSE
    /\ BitInit
    /\ ScalarInit
    /\ mv_w = GorillaWriterMV_with_vec(MVHeader, 1)
    /\ MVInit
    /\ api_dim = 1 /\ api_entries = <<>>
    /\ ApiInit
    /\ SSTInit
    /\ LSMInit
    /\ WALInit
    /\ StoreInit
    /\ StepIdle

NextWAL ==
    \/ WAL_Add /\ UNCHANGED <<overflow_checks, bitVars, scalarVars, mvVars, apiVars, sstVars, lsmVars, storeVars, stepVars>>
    \/ WAL_Crash /\ UNCHANGED <<overflow_checks, bitVars, scalarVars, mvVars, apiVars, sstVars, lsmVars, storeVars, stepVars>>
    \/ WAL_Open /\ UNCHANGED <<overflow_checks, bitVars, scalarVars, mvVars, apiVars, sstVars, lsmVars, storeVars, stepVars>>
    \/ WAL_Next /\ UNCHANGED <<overflow_checks, bitVars, scalarVars, mvVars, apiVars, sstVars, lsmVars, storeVars, stepVars>>

SpecWAL == InitWAL /\ [][NextWAL]_vars

InitStore ==
    /\ overflow_checks = FALSE
    /\ BitInit
    /\ ScalarInit
    /\ mv_w = GorillaWriterMV_with_vec(MVHeader, 1)
    /\ MVInit
    /\ api_dim = 1 /\ api_entries = <<>>
    /\ ApiInit
    /\ SSTInit
    /\ LSMInit
    /\ WALInit
    /\ StoreInit
    /\ StepIdle

NextStore ==
    \/ ST_SeedWal /\ UNCHANGED <<overflow_checks, bitVars, scalarVars, mvVars, apiVars, sstVars, lsmVars, walVars, stepVars>>
    \/ ST_New /\ UNCHANGED <<overflow_checks, bitVars, scalarVars, mvVars, apiVars, sstVars, lsmVars, walVars, stepVars>>
    \/ ST_Set /\ UNCHANGED <<overflow_checks, bitVars, scalarVars, mvVars, apiVars, sstVars, lsmVars, walVars, stepVars>>
    \/ ST_SetFault /\ UNCHANGED <<overflow_checks, bitVars, scalarVars, mvVars, apiVars, sstVars, lsmVars, walVars, stepVars>>
    \/ ST_Get /\ UNCHANGED <<overflow_checks, bitVars, scalarVars, mvVars, apiVars, sstVars, lsmVars, walVars, stepVars>>
    \/ ST_Crash /\ UNCHANGED <<overflow_checks, bitVars, scalarVars, mvVars, apiVars, sstVars, lsmVars, walVars, stepVars>>

SpecStore == InitStore /\ [][NextStore]_vars

InitSteps ==
    /\ overflow_checks = FALSE
    /\ BitInit
    /\ ScalarInit
    /\ mv_w = GorillaWriterMV_with_vec(MVHeader, 1)
    /\ MVInit
    /\ api_dim = 1 /\ api_entries = <<>>
    /\ ApiInit
    /\ SSTInit
    /\ LSMInit
    /\ WALInit
    /\ StoreInit
    /\ StepInit

NextSteps ==
    \/ SET_Lock /\ UNCHANGED <<overflow_checks, bitVars, scalarVars, mvVars, apiVars, sstVars, lsmVars, walVars, storeVars>>
    \/ SET_Check /\ UNCHANGED <<overflow_checks, bitVars, scalarVars, mvVars, apiVars, sstVars, lsmVars, walVars, storeVars>>
    \/ SET_WalAdd /\ UNCHANGED <<overflow_checks, bitVars, scalarVars, mvVars, apiVars, sstVars, lsmVars, walVars, storeVars>>
    \/ SET_TreeSet /\ UNCHANGED <<overflow_checks, bitVars, scalarVars, mvVars, apiVars, sstVars, lsmVars, walVars, storeVars>>
    \/ GET_Call /\ UNCHANGED <<overflow_checks, bitVars, scalarVars, mvVars, apiVars, sstVars, lsmVars, walVars, storeVars>>
    \/ GET_TreeGet /\ UNCHANGED <<overflow_checks, bitVars, scalarVars, mvVars, apiVars, sstVars, lsmVars, walVars, storeVars>>
    \/ CT_Step /\ UNCHANGED <<overflow_checks, bitVars, scalarVars, mvVars, apiVars, sstVars, lsmVars, walVars, storeVars>>

SpecSteps == InitSteps /\ [][NextSteps]_vars

InitSST ==
    /\ overflow_checks = FALSE
    /\ BitInit
    /\ ScalarInit
    /\ mv_w = GorillaWriterMV_with_vec(MVHeader, 1)
    /\ MVInit
    /\ api_dim = 1 /\ api_entries = <<>>
    /\ ApiInit
    /\ SSTInit
    /\ LSMInit
    /\ WALInit
    /\ StoreInit
    /\ StepIdle

NextSST ==
    \/ SST_New /\ UNCHANGED <<overflow_checks, bitVars, scalarVars, mvVars, apiVars, lsmVars, walVars, storeVars, stepVars>>
    \/ SST_Add /\ UNCHANGED <<overflow_checks, bitVars, scalarVars, mvVars, apiVars, lsmVars, walVars, storeVars, stepVars>>
    \/ SST_MergeFile /\ UNCHANGED <<overflow_checks, bitVars, scalarVars, mvVars, apiVars, lsmVars, walVars, storeVars, stepVars>>
    \/ SST_Commit /\ UNCHANGED <<overflow_checks, bitVars, scalarVars, mvVars, apiVars, lsmVars, walVars, storeVars, stepVars>>
    \/ SST_Open /\ UNCHANGED <<overflow_checks, bitVars, scalarVars, mvVars, apiVars, lsmVars, walVars, storeVars, stepVars>>
    \/ SST_Get /\ UNCHANGED <<overflow_checks, bitVars, scalarVars, mvVars, apiVars, lsmVars, walVars, storeVars, stepVars>>
    \/ SST_Iter /\ UNCHANGED <<overflow_checks, bitVars, scalarVars, mvVars, apiVars, lsmVars, walVars, storeVars, stepVars>>
    \/ SST_IterNext /\ UNCHANGED <<overflow_checks, bitVars, scalarVars, mvVars, apiVars, lsmVars, walVars, storeVars, stepVars>>

SpecSST == InitSST /\ [][NextSST]_vars

\* the thread of the caller goes on inside a call of set or get: past the
\* loop on compact_finish when it holds the flag true, past wal.add, and
\* past the lock of the tree when the mutex is free
WriterMoves ==
    /\ \/ /\ sp_pc = "check"
          /\ sp_locks.finish \in {"set", "free"}
          /\ RustyStore_set_observe(sp_cond).proceed
       \/ sp_pc = "wal"
       \/ sp_pc \in {"tree", "get"} /\ sp_locks.tree = "free"
    /\ sp_pc' \in {"wal", "tree", "idle", "panic"}

\* the steps of the compaction thread
CompactorNext ==
    /\ CT_Step
    /\ UNCHANGED <<overflow_checks, bitVars, scalarVars, mvVars, apiVars, sstVars, lsmVars, walVars, storeVars>>

\* a thread that can take a step takes one: the scheduler runs both threads,
\* and a thread woken from Condvar::wait or given a free mutex goes on
SpecStepsFair ==
    InitSteps /\ [][NextSteps]_vars /\ WF_sp_pc(WriterMoves) /\ WF_vars(CompactorNext)

Spec == SpecBits

=============================================================================
